---------------------------- MODULE Spec2Model ----------------------------
(***************************************************************************)
(* Verification model of the prediction-market trading core:               *)
(*   - OrderBook            (examples/.../market switcher, part_003)       *)
(*   - wss.Connection       (pkg/exchange/polymarket/wss/client.go)        *)
(*   - Strategy.Execute     (hedge strategy, part_011)                     *)
(*   - MarketSwitcher.Run   (round scheduler, part_003)                    *)
(*   - handleUserMessage    (trade notifications, wss/client.go)           *)
(*   - the leg prices of Execute in float64 (part_011, part_007)           *)
(*   - OrderBuilder.BuildOrder (pkg/exchange/polymarket/clob/order.go)     *)
(*   - GetBestBid / GetBestAsk and calcCurrentRoundStart (part_003)        *)
(*   - toUnits              (clob/order.go)                                *)
(*   - messageLoop against the tick loop of Run (part_003)                 *)
(*   - HTTPClient.Get / Post (common/contracts.go), Client.doRequest       *)
(*   - Connection.Send and the tasks that write to a socket                *)
(* Each component has its own specification (SpecBook, SpecConn, SpecExec, *)
(* SpecSwitch, SpecTrade, SpecQuote, SpecOrder, SpecBest, SpecRound,       *)
(* SpecUnits, SpecHandle, SpecHttp, SpecWrite); the variables of the other *)
(* components stay at their initial values.                                *)
(***************************************************************************)
EXTENDS Integers, Sequences, FiniteSets, TLC

VARIABLES
    \* ---- OrderBook (part_003) ----
    ob,        \* the OrderBook: [AssetID, Side, Bids, Asks]
    lastOp,    \* the last operation applied to ob: [kind, snapshot, event,
               \*   hadLevel: the level a delta addressed was present before it,
               \*   hadOther: the book held a level the snapshot does not carry]
    \* ---- wss.Connection (wss/client.go) ----
    isConnected,         \* Connection.isConnected
    isIntentionalClose,  \* Connection.isIntentionalClose
    reconnectAttempts,   \* Connection.reconnectAttempts
    conn,                \* Connection.conn: 0 is nil, else the socket's number
    sock,                \* each dialled socket: "none", "open", "closed", "broken"
    pingTimer,           \* Connection.pingTimer is set (a running ticker)
    reconnectTimer,      \* Connection.reconnectTimer: 0 is nil, else the timer's number
    stopChClosed,        \* Connection.stopCh has been closed
    panicked,            \* the process died of a run-time panic
    pc,                  \* position of the caller (thread 0) and of each timer callback
    ret,                 \* where the Close a thread runs returns to: "api" or "connect"
    timerDelay,          \* the delay each reconnect timer was armed with
    loopPc,              \* position of each readLoop goroutine
    loopConn,            \* the socket a readLoop took from c.conn
    loopAttempt,         \* tryReconnect's local "attempt"
    callsLeft,           \* API calls the caller may still make
    pingLoops,           \* heartbeat goroutines that wait in their select
    \* ---- observers of the Connection ----
    closeReturned,       \* the caller's last call was a Close that returned
    closePost,           \* every returned Close left the session closed
    reconnectFail,       \* argument of the last onReconnectFail call, 0 if none
    triesSinceUp,        \* reconnect tries since the last established connection
    lastTryFailed,       \* the last reconnect try failed to dial
    tryDelayOk,          \* every try so far waited (its number) x ReconnectDelay
    \* ---- Strategy.Execute (part_011) ----
    epc,          \* position in Execute
    attempt,      \* the loop variable "attempt"
    result,       \* the Result under construction
    balance,      \* balanceA, balanceB
    urlsLeft,     \* candidate markets not yet probed
    best,         \* bestBid, bestAsk
    buyPrice,     \* yesBuyPrice (leg A), noBuyPrice (leg B)
    tradeAmount,  \* tradeAmount
    legState,     \* each leg's submission goroutine: idle, running, err, noid, ok
    status,       \* statusA, statusB: "unset", "nil" or the size_matched string
    orders,       \* the orders the exchange accepted, with the cancels sent
    \* ---- observers of Execute ----
    submits,      \* submissions per leg in the current attempt
    partial,      \* attempts abandoned with exactly one leg's order accepted
    \* ---- MarketSwitcher (part_003) ----
    now,          \* the wall clock, in model time units
    rpc,          \* position of MarketSwitcher.Run
    current,      \* MarketSwitcher.current (NilRound when nil)
    next,         \* MarketSwitcher.next (NilRound when nil)
    upBook,       \* MarketSwitcher.upBook
    downBook,     \* MarketSwitcher.downBook
    mconn,        \* MarketSwitcher.conn: the session as the scheduler sees it,
                  \*   with the instruments the server has it subscribed to
    stopChan,     \* MarketSwitcher.stopChan has been closed
    drops,        \* network drops of the session so far
    msgLoops,     \* messageLoop goroutines started
    \* ---- trade notifications of one Connection (wss/client.go) ----
    processedTrades,  \* Connection.processedTrades: the keys stored
    onTrade,          \* Connection.onTrade is set
    tradeCalls,       \* onTrade invocations so far, per trade id ("" for none)
    tradeSeen,        \* trade ids carried by the trade frames handled so far
    tradeFrames,      \* user-channel frames handled so far
    tradeDropped,     \* trade frames dropped as redeliveries
    \* ---- Strategy.Execute, leg prices (part_011) ----
    quoted,        \* the attempt has computed its prices
    tickDecimals,  \* decimals of the book's tick size: 1 is 0.1, 4 is 0.0001
    bidTicks,      \* the best bid of the book, in ticks
    tickSize,      \* Execute's tickSize, a float64
    bestBid,       \* Execute's bestBid, a float64
    yesBuyPrice,   \* Execute's yesBuyPrice, a float64
    noBuyPrice,    \* Execute's noBuyPrice, a float64
    \* ---- clob.OrderBuilder (clob/order.go) ----
    orderBuilder,   \* Client.orderBuilder: "nil" before NewClient has succeeded
    newClientErr,   \* the error NewClient returned, "" for none
    userOrder,      \* the UserOrder and options of the last BuildOrder, as the
                    \*   caller wrote them: Size in 1/1000, Price in 1/10000
    rawPrice,       \* calculateOrderAmounts: rawPrice
    rawSize,        \* calculateOrderAmounts: the rounded size
    rawAmt,         \* calculateOrderAmounts: the amount on the other side
    signedOrder,    \* the *SignedOrder BuildOrder returned, NilOrder for nil
    buildErr,       \* the error BuildOrder returned, "" for nil
    \* ---- OrderBook.GetBestBid / GetBestAsk (part_003) ----
    bestResult,     \* what the last GetBestBid / GetBestAsk returned, for the
                    \*   book as it is: [op, price, size] in 1/100
    \* ---- calcCurrentRoundStart (part_003) ----
    period,         \* the configured period: "15m", "1h", "4h" or "daily"
    clockNow,       \* time.Now() of the last calcCurrentRoundStart, Unix seconds
    roundStart,     \* what that call returned, Unix seconds; NoStart before it
    \* ---- toUnits (clob/order.go) ----
    unitsIn,        \* the amount handed to toUnits, in 1/10000000; NoAmount before
    unitsOut,       \* the big.Int toUnits returned, as an integer
    \* ---- MarketSwitcher.messageLoop, statement by statement ----
    hpc,            \* where messageLoop stands: "idle" in its select, "up" or
                    \* "down" inside a handler that has chosen a book
    hAsset,         \* the asset id of the event being handled, -1 when idle
    \* ---- HTTPClient.Get / Post and Client.doRequest ----
    httpPc,         \* "idle", "attempt" (inside a request function), "returned"
    httpFunc,       \* the function that sends: "Get", "Post" or "doRequest"
    httpTry,        \* the loop counter i of Get and Post
    bodyReader,     \* what is left to read in the request body: "full",
                    \* "empty", or "none" for a request without body
    sentBodies,     \* the body each attempt sent, in order
    sleeps,         \* the wait after each attempt that another attempt
                    \* followed, in half seconds (0: no time.Sleep)
    outcomes,       \* what each attempt got from the transport, in order
    httpErr,        \* the error the function returned; NoError for none
    \* ---- Connection.Send and the tasks that call it ----
    writing,        \* per task: the frame it is writing inside
                    \* conn.WriteMessage, "" when it is not in Send
    frames,         \* frames written to the socket so far
    writeOpen       \* isConnected of the session the tasks write to

bookVars == <<ob, lastOp>>

connVars == <<isConnected, isIntentionalClose, reconnectAttempts, conn, sock,
              pingTimer, reconnectTimer, stopChClosed, panicked, pc, ret,
              timerDelay, loopPc, loopConn, loopAttempt, callsLeft, pingLoops,
              closeReturned, closePost, reconnectFail, triesSinceUp,
              lastTryFailed, tryDelayOk>>

execVars == <<epc, attempt, result, balance, urlsLeft, best, buyPrice,
              tradeAmount, legState, status, orders, submits, partial>>

switchVars == <<now, rpc, current, next, upBook, downBook, mconn, stopChan,
                drops, msgLoops>>

tradeVars == <<processedTrades, onTrade, tradeCalls, tradeSeen, tradeFrames,
               tradeDropped>>

quoteVars == <<quoted, tickDecimals, bidTicks, tickSize, bestBid, yesBuyPrice,
               noBuyPrice>>

orderVars == <<orderBuilder, newClientErr, userOrder, rawPrice, rawSize, rawAmt,
               signedOrder, buildErr>>

bestVars == <<bestResult>>

roundVars == <<period, clockNow, roundStart>>

unitsVars == <<unitsIn, unitsOut>>

handleVars == <<hpc, hAsset>>

httpVars == <<httpPc, httpFunc, httpTry, bodyReader, sentBodies, sleeps, outcomes, httpErr>>

writeVars == <<writing, frames, writeOpen>>

vars == <<bookVars, connVars, execVars, switchVars, tradeVars, quoteVars, orderVars, bestVars, roundVars, unitsVars, handleVars, httpVars, writeVars>>

\* what the actions of one component leave alone
notBookVars == <<connVars, execVars, switchVars, tradeVars, quoteVars, orderVars, bestVars, roundVars, unitsVars, handleVars, httpVars, writeVars>>
notConnVars == <<bookVars, execVars, switchVars, tradeVars, quoteVars, orderVars, bestVars, roundVars, unitsVars, handleVars, httpVars, writeVars>>
notExecVars == <<bookVars, connVars, switchVars, tradeVars, quoteVars, orderVars, bestVars, roundVars, unitsVars, handleVars, httpVars, writeVars>>
notSwitchVars == <<bookVars, connVars, execVars, tradeVars, quoteVars, orderVars, bestVars, roundVars, unitsVars, handleVars, httpVars, writeVars>>
notTradeVars == <<bookVars, connVars, execVars, switchVars, quoteVars, orderVars, bestVars, roundVars, unitsVars, handleVars, httpVars, writeVars>>
notQuoteVars == <<bookVars, connVars, execVars, switchVars, tradeVars, orderVars, bestVars, roundVars, unitsVars, handleVars, httpVars, writeVars>>
notOrderVars == <<bookVars, connVars, execVars, switchVars, tradeVars, quoteVars, bestVars, roundVars, unitsVars, handleVars, httpVars, writeVars>>
notBestVars == <<bookVars, connVars, execVars, switchVars, tradeVars, quoteVars, orderVars, roundVars, unitsVars, handleVars, httpVars, writeVars>>
notRoundVars == <<bookVars, connVars, execVars, switchVars, tradeVars, quoteVars, orderVars, bestVars, unitsVars, handleVars, httpVars, writeVars>>
notFeedVars == <<connVars, execVars, switchVars, tradeVars, quoteVars, orderVars, roundVars, unitsVars, handleVars, httpVars, writeVars>>
notUnitsVars == <<bookVars, connVars, execVars, switchVars, tradeVars, quoteVars, orderVars, bestVars, roundVars, handleVars, httpVars, writeVars>>
notHandleVars == <<bookVars, connVars, execVars, switchVars, tradeVars, quoteVars, orderVars, bestVars, roundVars, unitsVars, httpVars, writeVars>>
notRunVars == <<bookVars, connVars, execVars, tradeVars, quoteVars, orderVars, bestVars, roundVars, unitsVars, httpVars, writeVars>>
notHttpVars == <<bookVars, connVars, execVars, switchVars, tradeVars, quoteVars, orderVars, bestVars, roundVars, unitsVars, handleVars, writeVars>>
notWriteVars == <<bookVars, connVars, execVars, switchVars, tradeVars, quoteVars, orderVars, bestVars, roundVars, unitsVars, handleVars, httpVars>>

(***************************************************************************)
(* Bounds of the order-book model                                          *)
(***************************************************************************)
\* total number of levels (bids + asks) carried by one snapshot
MaxLevels == 2

\* decimal strings, as carried by the feed
Prices == {"0.45", "0.46"}
Sizes == {"0", "5", "12"}
EventSides == {"BUY", "SELL"}

Level == [Price : Prices, Size : Sizes]

RECURSIVE SeqsUpTo(_, _)
SeqsUpTo(S, n) ==
    IF n = 0 THEN {<<>>}
    ELSE LET shorter == SeqsUpTo(S, n - 1)
         IN  shorter \cup {Append(q, x) : q \in {r \in shorter : Len(r) = n - 1}, x \in S}

\* common.OrderBookSnapshot: two slices of levels
Snapshots ==
    {[Bids |-> b, Asks |-> a] :
        b \in SeqsUpTo(Level, MaxLevels),
        a \in SeqsUpTo(Level, MaxLevels)}

BoundedSnapshots == {s \in Snapshots : Len(s.Bids) + Len(s.Asks) <= MaxLevels}

\* common.PriceChangeEvent
PriceChangeEvents == [Side : EventSides, Price : Prices, Size : Sizes]

(***************************************************************************)
(* Go maps map[string]string as functions on a finite set of keys          *)
(***************************************************************************)
EmptyMap == [p \in {} |-> "0"]

MapPut(m, k, v) == [q \in (DOMAIN m) \cup {k} |-> IF q = k THEN v ELSE m[q]]

MapDelete(m, k) == [q \in (DOMAIN m) \ {k} |-> m[q]]

NewOrderBook(assetID, side) ==
    [AssetID |-> assetID, Side |-> side, Bids |-> EmptyMap, Asks |-> EmptyMap]

\* the loop "for _, l := range levels { if l.Size != "0" { m[l.Price] = l.Size } }"
RECURSIVE LoadLevels(_, _)
LoadLevels(m, levels) ==
    IF levels = <<>> THEN m
    ELSE LET l == Head(levels)
         IN  LoadLevels(IF l.Size # "0" THEN MapPut(m, l.Price, l.Size) ELSE m,
                        Tail(levels))

\* mutant: the side maps are not re-made, the snapshot is merged into them
ApplySnapshotMerge(book, snapshot) ==
    [book EXCEPT !.Bids = LoadLevels(book.Bids, snapshot.Bids),
                 !.Asks = LoadLevels(book.Asks, snapshot.Asks)]

ApplySnapshot(book, snapshot) ==
    [book EXCEPT !.Bids = LoadLevels(EmptyMap, snapshot.Bids),
                 !.Asks = LoadLevels(EmptyMap, snapshot.Asks)]

\* mutant: a "0" delta is stored like any other size
ApplyPriceChangeStoreZero(book, event) ==
    IF event.Side = "BUY"
    THEN [book EXCEPT !.Bids = MapPut(book.Bids, event.Price, event.Size)]
    ELSE [book EXCEPT !.Asks = MapPut(book.Asks, event.Price, event.Size)]

ApplyPriceChange(book, event) ==
    IF event.Side = "BUY"
    THEN IF event.Size = "0"
         THEN [book EXCEPT !.Bids = MapDelete(book.Bids, event.Price)]
         ELSE [book EXCEPT !.Bids = MapPut(book.Bids, event.Price, event.Size)]
    ELSE IF event.Size = "0"
         THEN [book EXCEPT !.Asks = MapDelete(book.Asks, event.Price)]
         ELSE [book EXCEPT !.Asks = MapPut(book.Asks, event.Price, event.Size)]

NoSnapshot == [Bids |-> <<>>, Asks |-> <<>>]
NoEvent == [Side |-> "BUY", Price |-> "0.45", Size |-> "0"]

SideOf(book, side) == IF side = "BUY" THEN book.Bids ELSE book.Asks

InitBook ==
    /\ ob = NewOrderBook("up-token", "UP")
    /\ lastOp = [kind |-> "new", snapshot |-> NoSnapshot, event |-> NoEvent,
                 hadLevel |-> FALSE, hadOther |-> FALSE]

\* a "book" frame is handed to the book
OnBook ==
    \E s \in BoundedSnapshots :
        /\ ob' = ApplySnapshot(ob, s)
        /\ lastOp' = [kind |-> "snapshot", snapshot |-> s, event |-> NoEvent,
                      hadLevel |-> FALSE,
                      hadOther |->
                          \/ \E p \in DOMAIN ob.Bids :
                                \A i \in 1..Len(s.Bids) : s.Bids[i].Price # p
                          \/ \E p \in DOMAIN ob.Asks :
                                \A i \in 1..Len(s.Asks) : s.Asks[i].Price # p]
        /\ UNCHANGED notBookVars

\* one change of a "price_change" frame is handed to the book
OnPriceChange ==
    \E e \in PriceChangeEvents :
        /\ ob' = ApplyPriceChange(ob, e)
        /\ lastOp' = [kind |-> "delta", snapshot |-> NoSnapshot, event |-> e,
                      hadLevel |-> e.Price \in DOMAIN SideOf(ob, e.Side),
                      hadOther |-> FALSE]
        /\ UNCHANGED notBookVars

NextBook == OnBook \/ OnPriceChange

(***************************************************************************)
(* wss.Connection: Connect, Close, the read loop and the reconnect timer.   *)
(* Every step is one critical section (or one unsynchronised access) of    *)
(* the code; the caller, each timer callback and each readLoop are threads. *)
(***************************************************************************)
\* sockets the model may dial
MaxDials == 2
\* reconnect timers the model may arm
MaxTimers == 2
\* API calls (Connect, Close) the caller makes
MaxCalls == 3
\* ClientConfig.MaxReconnectAttempts of the modelled session (default 10)
MaxReconnectAttempts == 2
\* ClientConfig.ReconnectDelay, in seconds
ReconnectDelay == 5

Caller == 0
Timers == 1..MaxTimers
Threads == {Caller} \cup Timers
Socks == 1..MaxDials
Loops == 1..MaxDials

InitConn ==
    /\ isConnected = FALSE
    /\ isIntentionalClose = FALSE
    /\ reconnectAttempts = 0
    /\ conn = 0
    /\ sock = [s \in Socks |-> "none"]
    /\ pingTimer = FALSE
    /\ reconnectTimer = 0
    /\ stopChClosed = FALSE
    /\ panicked = FALSE
    /\ pc = [t \in Threads |-> "idle"]
    /\ ret = [t \in Threads |-> "api"]
    /\ timerDelay = [t \in Timers |-> 0]
    /\ loopPc = [l \in Loops |-> "none"]
    /\ loopConn = [l \in Loops |-> 0]
    /\ loopAttempt = [l \in Loops |-> 0]
    /\ callsLeft = MaxCalls
    /\ pingLoops = 0
    /\ closeReturned = FALSE
    /\ closePost = TRUE
    /\ reconnectFail = 0
    /\ triesSinceUp = 0
    /\ lastTryFailed = FALSE
    /\ tryDelayOk = TRUE

connObservers == <<closeReturned, closePost, reconnectFail, triesSinceUp,
                   lastTryFailed, tryDelayOk>>

loopVars == <<loopPc, loopConn, loopAttempt>>

\* where a thread goes when its Connect returns: the caller is idle again, a
\* timer callback ends (after onError, if Connect failed)
AfterConnect(t) == IF t = Caller THEN "idle" ELSE "done"

\* the caller calls Connect()
CallConnect ==
    /\ ~panicked
    /\ pc[Caller] = "idle"
    /\ callsLeft > 0
    /\ callsLeft' = callsLeft - 1
    /\ pc' = [pc EXCEPT ![Caller] = "connect"]
    /\ closeReturned' = FALSE
    /\ UNCHANGED <<isConnected, isIntentionalClose, reconnectAttempts, conn, sock,
                   pingTimer, reconnectTimer, stopChClosed, panicked, ret,
                   timerDelay, loopVars, closePost, reconnectFail, triesSinceUp,
                   lastTryFailed, tryDelayOk, pingLoops,
                   notConnVars>>

\* the caller calls Close()
CallClose ==
    /\ ~panicked
    /\ pc[Caller] = "idle"
    /\ callsLeft > 0
    /\ callsLeft' = callsLeft - 1
    /\ pc' = [pc EXCEPT ![Caller] = "close1"]
    /\ ret' = [ret EXCEPT ![Caller] = "api"]
    /\ closeReturned' = FALSE
    /\ UNCHANGED <<isConnected, isIntentionalClose, reconnectAttempts, conn, sock,
                   pingTimer, reconnectTimer, stopChClosed, panicked,
                   timerDelay, loopVars, closePost, reconnectFail, triesSinceUp,
                   lastTryFailed, tryDelayOk, pingLoops,
                   notConnVars>>

\* Connect, lines 172-178: return nil when connected, else clear the
\* intentional-close mark
ConnectEnter(t) ==
    /\ ~panicked
    /\ pc[t] = "connect"
    /\ IF isConnected
       THEN /\ pc' = [pc EXCEPT ![t] = AfterConnect(t)]
            /\ UNCHANGED isIntentionalClose
       ELSE /\ pc' = [pc EXCEPT ![t] = "dial"]
            /\ isIntentionalClose' = FALSE
    /\ UNCHANGED <<isConnected, reconnectAttempts, conn, sock, pingTimer,
                   reconnectTimer, stopChClosed, panicked, ret, timerDelay,
                   loopVars, callsLeft, connObservers, pingLoops,
                   notConnVars>>

\* Connect, lines 203-206: the dial fails and Connect returns the error
DialFail(t) ==
    /\ ~panicked
    /\ pc[t] = "dial"
    /\ pc' = [pc EXCEPT ![t] = AfterConnect(t)]
    /\ lastTryFailed' = IF t = Caller THEN lastTryFailed ELSE TRUE
    /\ UNCHANGED <<isConnected, isIntentionalClose, reconnectAttempts, conn, sock,
                   pingTimer, reconnectTimer, stopChClosed, panicked, ret,
                   timerDelay, loopVars, callsLeft, closeReturned, closePost,
                   reconnectFail, triesSinceUp, tryDelayOk, pingLoops,
                   notConnVars>>

\* Connect, lines 203-212: the dial succeeds; conn, isConnected and
\* reconnectAttempts are set under the lock
DialOk(t) ==
    /\ ~panicked
    /\ pc[t] = "dial"
    /\ \E s \in Socks :
        /\ sock[s] = "none"
        /\ \A r \in Socks : r < s => sock[r] # "none"
        /\ sock' = [sock EXCEPT ![s] = "open"]
        /\ conn' = s
    /\ isConnected' = TRUE
    /\ reconnectAttempts' = 0
    /\ pc' = [pc EXCEPT ![t] = "subscribe"]
    /\ triesSinceUp' = 0
    /\ lastTryFailed' = FALSE
    /\ UNCHANGED <<isIntentionalClose, pingTimer, reconnectTimer, stopChClosed,
                   panicked, ret, timerDelay, loopVars, callsLeft, closeReturned,
                   closePost, reconnectFail, tryDelayOk, pingLoops,
                   notConnVars>>

\* Send, lines 268-293: fails when not connected, when conn is nil, or when
\* the write on the socket fails
SendOk == isConnected /\ conn # 0 /\ sock[conn] = "open"

\* Connect, lines 215-218: the subscription payload is sent; on failure
\* Connect calls Close and returns the error
Subscribe(t) ==
    /\ ~panicked
    /\ pc[t] = "subscribe"
    /\ IF SendOk
       THEN /\ pc' = [pc EXCEPT ![t] = "start"]
            /\ UNCHANGED ret
       ELSE /\ pc' = [pc EXCEPT ![t] = "close1"]
            /\ ret' = [ret EXCEPT ![t] = "connect"]
    /\ UNCHANGED <<isConnected, isIntentionalClose, reconnectAttempts, conn, sock,
                   pingTimer, reconnectTimer, stopChClosed, panicked, timerDelay,
                   loopVars, callsLeft, connObservers, pingLoops,
                   notConnVars>>

\* Connect, lines 221-230: startPing (a new ticker and a new heartbeat
\* goroutine), go readLoop, onConnected, return nil
StartLoops(t) ==
    /\ ~panicked
    /\ pc[t] = "start"
    /\ pingTimer' = TRUE
    /\ \E l \in Loops :
        /\ loopPc[l] = "none"
        /\ \A k \in Loops : k < l => loopPc[k] # "none"
        /\ loopPc' = [loopPc EXCEPT ![l] = "top"]
    /\ pingLoops' = pingLoops + 1
    /\ pc' = [pc EXCEPT ![t] = AfterConnect(t)]
    /\ UNCHANGED <<isConnected, isIntentionalClose, reconnectAttempts, conn, sock,
                   reconnectTimer, stopChClosed, panicked, ret, timerDelay,
                   loopConn, loopAttempt, callsLeft, connObservers, notConnVars>>

\* Close, lines 235-237
CloseMark(t) ==
    /\ ~panicked
    /\ pc[t] = "close1"
    /\ isIntentionalClose' = TRUE
    /\ pc' = [pc EXCEPT ![t] = "close2"]
    /\ UNCHANGED <<isConnected, reconnectAttempts, conn, sock, pingTimer,
                   reconnectTimer, stopChClosed, panicked, ret, timerDelay,
                   loopVars, callsLeft, connObservers, pingLoops,
                   notConnVars>>

\* Close, line 239: stopPing
CloseStopPing(t) ==
    /\ ~panicked
    /\ pc[t] = "close2"
    /\ pingTimer' = FALSE
    /\ pc' = [pc EXCEPT ![t] = "close3"]
    /\ UNCHANGED <<isConnected, isIntentionalClose, reconnectAttempts, conn, sock,
                   reconnectTimer, stopChClosed, panicked, ret, timerDelay,
                   loopVars, callsLeft, connObservers, pingLoops,
                   notConnVars>>

\* Close, line 240: stopReconnect stops the timer if it has not fired yet and
\* forgets it; a callback that already runs is not stopped
CloseStopReconnect(t) ==
    /\ ~panicked
    /\ pc[t] = "close3"
    /\ reconnectTimer' = 0
    /\ pc' = [u \in Threads |->
                IF u = t THEN "close4"
                ELSE IF u = reconnectTimer /\ pc[u] = "pending" THEN "stopped"
                ELSE pc[u]]
    /\ UNCHANGED <<isConnected, isIntentionalClose, reconnectAttempts, conn, sock,
                   pingTimer, stopChClosed, panicked, ret, timerDelay,
                   loopVars, callsLeft, connObservers, pingLoops,
                   notConnVars>>

\* Close, lines 242-248: the socket is closed and released
CloseSocket(t) ==
    /\ ~panicked
    /\ pc[t] = "close4"
    /\ sock' = IF conn # 0 THEN [sock EXCEPT ![conn] = "closed"] ELSE sock
    /\ conn' = 0
    /\ isConnected' = FALSE
    /\ pc' = [pc EXCEPT ![t] = "close5"]
    /\ UNCHANGED <<isIntentionalClose, reconnectAttempts, pingTimer,
                   reconnectTimer, stopChClosed, panicked, ret, timerDelay,
                   loopVars, callsLeft, connObservers, pingLoops,
                   notConnVars>>

\* the state Close is to leave behind
ClosedState(connected, intentional, ticker, c) ==
    ~connected /\ intentional /\ ~ticker /\ c = 0

\* Close, line 250: close(c.stopCh) panics when the channel is already
\* closed; otherwise Close returns
CloseStopCh(t) ==
    /\ ~panicked
    /\ pc[t] = "close5"
    /\ IF stopChClosed
       THEN /\ panicked' = TRUE
            /\ UNCHANGED <<stopChClosed, pc, closeReturned, closePost>>
       ELSE /\ stopChClosed' = TRUE
            /\ UNCHANGED panicked
            /\ pc' = [pc EXCEPT ![t] =
                        IF ret[t] = "api" THEN "idle" ELSE AfterConnect(t)]
            /\ closeReturned' = IF ret[t] = "api" THEN TRUE ELSE closeReturned
            /\ closePost' = (closePost /\
                             ClosedState(isConnected, isIntentionalClose,
                                         pingTimer, conn))
    /\ UNCHANGED <<isConnected, isIntentionalClose, reconnectAttempts, conn, sock,
                   pingTimer, reconnectTimer, ret, timerDelay, loopVars,
                   callsLeft, reconnectFail, triesSinceUp, lastTryFailed,
                   tryDelayOk, pingLoops,
                   notConnVars>>

\* the network closes an open socket abnormally
NetworkDrop ==
    /\ ~panicked
    /\ \E s \in Socks :
        /\ sock[s] = "open"
        /\ sock' = [sock EXCEPT ![s] = "broken"]
    /\ UNCHANGED <<isConnected, isIntentionalClose, reconnectAttempts, conn,
                   pingTimer, reconnectTimer, stopChClosed, panicked, pc, ret,
                   timerDelay, loopVars, callsLeft, connObservers, pingLoops,
                   notConnVars>>

\* readLoop, lines 338-344: take c.conn; return when it is nil
LoopTop(l) ==
    /\ ~panicked
    /\ loopPc[l] = "top"
    /\ loopConn' = [loopConn EXCEPT ![l] = conn]
    /\ loopPc' = [loopPc EXCEPT ![l] = IF conn = 0 THEN "exit" ELSE "read"]
    /\ UNCHANGED <<isConnected, isIntentionalClose, reconnectAttempts, conn, sock,
                   pingTimer, reconnectTimer, stopChClosed, panicked, pc, ret,
                   timerDelay, loopAttempt, callsLeft, connObservers, pingLoops,
                   notConnVars>>

\* readLoop, lines 346-352: a frame is read and handled
LoopFrame(l) ==
    /\ ~panicked
    /\ loopPc[l] = "read"
    /\ sock[loopConn[l]] = "open"
    /\ loopPc' = [loopPc EXCEPT ![l] = "top"]
    /\ UNCHANGED <<isConnected, isIntentionalClose, reconnectAttempts, conn, sock,
                   pingTimer, reconnectTimer, stopChClosed, panicked, pc, ret,
                   timerDelay, loopConn, loopAttempt, callsLeft, connObservers,
                   pingLoops,
                   notConnVars>>

\* readLoop, lines 346-349: ReadMessage fails on a closed or broken socket
LoopReadError(l) ==
    /\ ~panicked
    /\ loopPc[l] = "read"
    /\ sock[loopConn[l]] \in {"closed", "broken"}
    /\ loopPc' = [loopPc EXCEPT ![l] = "handleClose"]
    /\ UNCHANGED <<isConnected, isIntentionalClose, reconnectAttempts, conn, sock,
                   pingTimer, reconnectTimer, stopChClosed, panicked, pc, ret,
                   timerDelay, loopConn, loopAttempt, callsLeft, connObservers,
                   pingLoops,
                   notConnVars>>

\* handleClose, lines 498-513: mark disconnected, stop the heartbeat, and try
\* to reconnect unless the close was intentional
HandleClose(l) ==
    /\ ~panicked
    /\ loopPc[l] = "handleClose"
    /\ isConnected' = FALSE
    /\ pingTimer' = FALSE
    /\ loopPc' = [loopPc EXCEPT ![l] =
                    IF ~isIntentionalClose /\ MaxReconnectAttempts > 0
                    THEN "tryReconnect" ELSE "exit"]
    /\ UNCHANGED <<isIntentionalClose, reconnectAttempts, conn, sock,
                   reconnectTimer, stopChClosed, panicked, pc, ret, timerDelay,
                   loopConn, loopAttempt, callsLeft, connObservers, pingLoops,
                   notConnVars>>

\* tryReconnect, lines 517-529: give up at the cap (onReconnectFail), else
\* count the attempt
TryReconnect(l) ==
    /\ ~panicked
    /\ loopPc[l] = "tryReconnect"
    /\ IF reconnectAttempts >= MaxReconnectAttempts
       THEN /\ reconnectFail' = reconnectAttempts
            /\ loopPc' = [loopPc EXCEPT ![l] = "exit"]
            /\ UNCHANGED <<reconnectAttempts, loopAttempt>>
       ELSE /\ reconnectAttempts' = reconnectAttempts + 1
            /\ loopAttempt' = [loopAttempt EXCEPT ![l] = reconnectAttempts + 1]
            /\ loopPc' = [loopPc EXCEPT ![l] = "arm"]
            /\ UNCHANGED reconnectFail
    /\ UNCHANGED <<isConnected, isIntentionalClose, conn, sock, pingTimer,
                   reconnectTimer, stopChClosed, panicked, pc, ret, timerDelay,
                   loopConn, callsLeft, closeReturned, closePost, triesSinceUp,
                   lastTryFailed, tryDelayOk, pingLoops,
                   notConnVars>>

\* tryReconnect, lines 528-535: delay = ReconnectDelay * attempt
ReconnectDelayFor(n) == ReconnectDelay * n

\* tryReconnect, line 535: the timer is armed
ArmTimer(l) ==
    /\ ~panicked
    /\ loopPc[l] = "arm"
    /\ \E t \in Timers :
        /\ pc[t] = "idle"
        /\ \A u \in Timers : u < t => pc[u] # "idle"
        /\ pc' = [pc EXCEPT ![t] = "pending"]
        /\ timerDelay' = [timerDelay EXCEPT ![t] = ReconnectDelayFor(loopAttempt[l])]
        /\ reconnectTimer' = t
    /\ loopPc' = [loopPc EXCEPT ![l] = "exit"]
    /\ UNCHANGED <<isConnected, isIntentionalClose, reconnectAttempts, conn, sock,
                   pingTimer, stopChClosed, panicked, ret, loopConn, loopAttempt,
                   callsLeft, connObservers, pingLoops,
                   notConnVars>>

\* the delay has passed: the callback starts in its own goroutine
TimerFire(t) ==
    /\ ~panicked
    /\ t \in Timers
    /\ pc[t] = "pending"
    /\ pc' = [pc EXCEPT ![t] = "fired"]
    /\ UNCHANGED <<isConnected, isIntentionalClose, reconnectAttempts, conn, sock,
                   pingTimer, reconnectTimer, stopChClosed, panicked, ret,
                   timerDelay, loopVars, callsLeft, connObservers, pingLoops,
                   notConnVars>>

\* the callback, lines 536-541: read the intentional-close mark, and call
\* Connect when it is not set
TimerCallback(t) ==
    /\ ~panicked
    /\ t \in Timers
    /\ pc[t] = "fired"
    /\ IF isIntentionalClose
       THEN /\ pc' = [pc EXCEPT ![t] = "done"]
            /\ UNCHANGED <<triesSinceUp, tryDelayOk>>
       ELSE /\ pc' = [pc EXCEPT ![t] = "connect"]
            /\ triesSinceUp' = triesSinceUp + 1
            /\ tryDelayOk' = (tryDelayOk /\
                              timerDelay[t] = (triesSinceUp + 1) * ReconnectDelay)
    /\ UNCHANGED <<isConnected, isIntentionalClose, reconnectAttempts, conn, sock,
                   pingTimer, reconnectTimer, stopChClosed, panicked, ret,
                   timerDelay, loopVars, callsLeft, closeReturned, closePost,
                   reconnectFail, lastTryFailed, pingLoops,
                   notConnVars>>

\* the heartbeat goroutine, lines 305-316: it waits for a tick of the ticker
\* or for stopCh; a tick sends PING and returns to the select, so only the
\* closing of stopCh ends the goroutine
PingStop ==
    /\ ~panicked
    /\ pingLoops > 0
    /\ stopChClosed
    /\ pingLoops' = pingLoops - 1
    /\ UNCHANGED <<isConnected, isIntentionalClose, reconnectAttempts, conn, sock,
                   pingTimer, reconnectTimer, stopChClosed, panicked, pc, ret,
                   timerDelay, loopVars, callsLeft, connObservers, notConnVars>>

NextConn ==
    \/ CallConnect
    \/ CallClose
    \/ \E t \in Threads : ConnectEnter(t)
    \/ \E t \in Threads : DialFail(t)
    \/ \E t \in Threads : DialOk(t)
    \/ \E t \in Threads : Subscribe(t)
    \/ \E t \in Threads : StartLoops(t)
    \/ \E t \in Threads : CloseMark(t)
    \/ \E t \in Threads : CloseStopPing(t)
    \/ \E t \in Threads : CloseStopReconnect(t)
    \/ \E t \in Threads : CloseSocket(t)
    \/ \E t \in Threads : CloseStopCh(t)
    \/ NetworkDrop
    \/ \E l \in Loops : LoopTop(l)
    \/ \E l \in Loops : LoopFrame(l)
    \/ \E l \in Loops : LoopReadError(l)
    \/ \E l \in Loops : HandleClose(l)
    \/ \E l \in Loops : TryReconnect(l)
    \/ \E l \in Loops : ArmTimer(l)
    \/ \E t \in Timers : TimerFire(t)
    \/ \E t \in Timers : TimerCallback(t)
    \/ PingStop

\* no thread of the session can take a step: only a new call of the caller
\* or a network event can change the state
Quiescent ==
    /\ pc[Caller] = "idle"
    /\ \A t \in Timers : pc[t] \in {"idle", "stopped", "done"}
    /\ \A l \in Loops : loopPc[l] \in {"none", "exit"}

(***************************************************************************)
(* Strategy.Execute: one synchronous run for one account pair.  Prices,    *)
(* balances and amounts are integers in units of 1/10000, and the          *)
(* arithmetic on them is exact.                                            *)
(***************************************************************************)
\* Config.MaxRetries of the modelled run (default 10)
MaxRetries == 2
\* len(Config.MarketURLs) of the modelled run
NumMarkets == 2
\* Config.MinSpreadTicks (DefaultConfig)
MinSpreadTicks == 2
\* 1.0 in model units
PriceOne == 10000
\* the tick size 0.01 in model units
TickSize == 100
\* Config.MaxTradeAmount (DefaultConfig: 10) in model units
MaxTradeAmount == 100000

Legs == {"A", "B"}

\* USDC balances returned by GetUSDCBalance (0 also when the query failed)
Balances == {0, 100000}

\* best bid / best ask as parseBestPrices returns them: bid 0 when there is no
\* bid, ask 1 when there is no ask
Books == {[bid |-> b, ask |-> a] : b \in {0, 4500, 4550}, a \in {4600, 4800, PriceOne}}

\* OpenOrder.SizeMatched as the exchange reports it
SizeMatchedValues == {"0", "0.0", "10"}

\* strconv.ParseFloat on the size_matched strings
ParseFloat(s) ==
    CASE s = "0" -> 0
      [] s = "0.0" -> 0
      [] s = "10" -> 10
      [] OTHER -> 0

NoCount == -1
ErrNone == [msg |-> "", count |-> NoCount]
ErrSetup == [msg |-> "setup failed", count |-> NoCount]
ErrNoMarket == [msg |-> "no market meets the spread condition", count |-> NoCount]
ErrBalance == [msg |-> "insufficient balance", count |-> NoCount]
\* fmt.Sprintf("... %d ...", s.config.MaxRetries)
ErrMaxRetries(n) == [msg |-> "max retries reached, not filled", count |-> n]

NewResult == [Success |-> FALSE, FilledA |-> "", FilledB |-> "", Error |-> ErrNone]

\* the order number the exchange gives the order of a leg in an attempt
OrderIdOf(a, leg) == IF leg = "A" THEN 2 * a - 1 ELSE 2 * a

InitExec ==
    /\ epc = "start"
    /\ attempt = 0
    /\ result = NewResult
    /\ balance = [l \in Legs |-> 0]
    /\ urlsLeft = NumMarkets
    /\ best = [bid |-> 0, ask |-> 0]
    /\ buyPrice = [l \in Legs |-> 0]
    /\ tradeAmount = 0
    /\ legState = [l \in Legs |-> "idle"]
    /\ status = [l \in Legs |-> "unset"]
    /\ orders = {}
    /\ submits = [l \in Legs |-> 0]
    /\ partial = {}

\* int((bestAsk - bestBid) / tickSize)
SpreadTicks(b) == (b.ask - b.bid) \div TickSize

\* common.AlignPrice(price, tickSize, "BUY")
AlignPrice(price) == (price \div TickSize) * TickSize

\* common.AlignAmount(amount, tickSize)
AlignAmount(amount) == (amount \div TickSize) * TickSize

\* balance / price; a zero price gives +Inf, which never is the minimum
MaxFrom(bal, price) ==
    IF price = 0 THEN MaxTradeAmount ELSE (bal * PriceOne) \div price

Min3(a, b, c) ==
    IF a <= b /\ a <= c THEN a ELSE IF b <= c THEN b ELSE c

\* Execute, lines 149-211: relayers, API keys, CLOB clients, balances and
\* approvals; a failed step returns an error result, a nil account status is
\* dereferenced
Setup ==
    /\ epc = "start"
    /\ \/ /\ epc' = "done"
          /\ result' = [result EXCEPT !.Error = ErrSetup]
          /\ UNCHANGED balance
       \/ /\ epc' = "panic"
          /\ UNCHANGED <<result, balance>>
       \/ /\ epc' = "select"
          /\ \E ba \in Balances, bb \in Balances :
                balance' = [l \in Legs |-> IF l = "A" THEN ba ELSE bb]
          /\ UNCHANGED result
    /\ UNCHANGED <<attempt, urlsLeft, best, buyPrice, tradeAmount, legState,
                   status, orders, submits, partial, notExecVars>>

\* Execute, lines 225-263: one candidate market is probed
ProbeMarket ==
    /\ epc = "select"
    /\ urlsLeft > 0
    /\ \/ \* the market or its book cannot be fetched
          /\ urlsLeft' = urlsLeft - 1
          /\ UNCHANGED <<epc, attempt, best>>
       \/ \E b \in Books :
            /\ best' = b
            /\ IF b.bid = 0 \/ b.ask = PriceOne \/ SpreadTicks(b) < MinSpreadTicks
               THEN /\ urlsLeft' = urlsLeft - 1
                    /\ UNCHANGED <<epc, attempt>>
               ELSE /\ epc' = "loop"
                    /\ attempt' = 1
                    /\ UNCHANGED urlsLeft
    /\ UNCHANGED <<result, balance, buyPrice, tradeAmount, legState, status,
                   orders, submits, partial, notExecVars>>

\* Execute, lines 265-269
NoMarket ==
    /\ epc = "select"
    /\ urlsLeft = 0
    /\ epc' = "done"
    /\ result' = [result EXCEPT !.Error = ErrNoMarket]
    /\ UNCHANGED <<attempt, balance, urlsLeft, best, buyPrice, tradeAmount,
                   legState, status, orders, submits, partial, notExecVars>>

\* mutant: the loop runs one attempt too many
LoopContinuesOneMore(a) == a <= MaxRetries + 1

\* Execute, line 272: attempt <= s.config.MaxRetries
LoopContinues(a) == a <= MaxRetries

\* Execute, lines 272-273 and 363-365: the head of the attempt loop
LoopHead ==
    /\ epc = "loop"
    /\ IF LoopContinues(attempt)
       THEN /\ epc' = IF attempt > 1 THEN "refresh" ELSE "price"
            /\ UNCHANGED result
       ELSE /\ epc' = "done"
            /\ result' = [result EXCEPT !.Error = ErrMaxRetries(MaxRetries)]
    /\ submits' = [l \in Legs |-> 0]
    /\ UNCHANGED <<attempt, balance, urlsLeft, best, buyPrice, tradeAmount,
                   legState, status, orders, partial, notExecVars>>

\* Execute, lines 273-288: a retry fetches the book again
Refresh ==
    /\ epc = "refresh"
    /\ \/ \* GetOrderBook fails: continue
          /\ attempt' = attempt + 1
          /\ epc' = "loop"
          /\ UNCHANGED best
       \/ \E b \in Books :
            /\ best' = b
            /\ IF SpreadTicks(b) < MinSpreadTicks
               THEN /\ attempt' = attempt + 1
                    /\ epc' = "loop"
               ELSE /\ epc' = "price"
                    /\ UNCHANGED attempt
    /\ UNCHANGED <<result, balance, urlsLeft, buyPrice, tradeAmount, legState,
                   status, orders, submits, partial, notExecVars>>

\* Execute, lines 290-311: prices and size of the two legs; the two
\* submission goroutines are started
PriceAndStart ==
    /\ epc = "price"
    /\ LET yes == AlignPrice(best.bid + TickSize)
           no == PriceOne - yes
           amount == AlignAmount(Min3(MaxTradeAmount,
                                      MaxFrom(balance["A"], yes),
                                      MaxFrom(balance["B"], no)))
       IN  /\ buyPrice' = [l \in Legs |-> IF l = "A" THEN yes ELSE no]
           /\ tradeAmount' = amount
           /\ IF amount < TickSize
              THEN /\ epc' = "done"
                   /\ result' = [result EXCEPT !.Error = ErrBalance]
                   /\ UNCHANGED legState
              ELSE /\ epc' = "submit"
                   /\ legState' = [l \in Legs |-> "running"]
                   /\ UNCHANGED result
    /\ UNCHANGED <<attempt, balance, urlsLeft, best, status, orders, submits,
                   partial, notExecVars>>

\* Execute, lines 318-329: one leg's goroutine runs CreateAndPostOrder; the
\* outcome is an error, an accepted order, or a response without an order id
LegSubmit(l) ==
    /\ epc = "submit"
    /\ legState[l] = "running"
    /\ submits' = [submits EXCEPT ![l] = @ + 1]
    /\ \/ /\ legState' = [legState EXCEPT ![l] = "err"]
          /\ UNCHANGED orders
       \/ /\ legState' = [legState EXCEPT ![l] = "noid"]
          /\ UNCHANGED orders
       \/ /\ legState' = [legState EXCEPT ![l] = "ok"]
          /\ orders' = orders \cup
                [id : {OrderIdOf(attempt, l)}, attempt : {attempt}, leg : {l},
                 cancelSent : {FALSE}]
    /\ UNCHANGED <<epc, attempt, result, balance, urlsLeft, best, buyPrice,
                   tradeAmount, status, partial, notExecVars>>

\* Execute, lines 330-336: wg.Wait, then the error check; the order ids are
\* sliced to 16 characters for the log line
Join ==
    /\ epc = "submit"
    /\ \A l \in Legs : legState[l] \in {"err", "noid", "ok"}
    /\ IF \E l \in Legs : legState[l] = "err"
       THEN /\ attempt' = attempt + 1
            /\ epc' = "loop"
            /\ partial' = IF \E l \in Legs : legState[l] = "ok"
                          THEN partial \cup {attempt} ELSE partial
       ELSE /\ epc' = IF \E l \in Legs : legState[l] = "noid"
                      THEN "panic" ELSE "pollA"
            /\ UNCHANGED <<attempt, partial>>
    /\ UNCHANGED <<result, balance, urlsLeft, best, buyPrice, tradeAmount,
                   legState, status, orders, submits, notExecVars>>

\* Execute, lines 339-343: after the fixed wait GetOrder is called for a leg;
\* it returns nil when the query fails
Poll(l) ==
    /\ epc = IF l = "A" THEN "pollA" ELSE "pollB"
    /\ \E v \in {"nil"} \cup SizeMatchedValues :
          status' = [status EXCEPT ![l] = v]
    /\ epc' = IF l = "A" THEN "pollB" ELSE "evaluate"
    /\ UNCHANGED <<attempt, result, balance, urlsLeft, best, buyPrice,
                   tradeAmount, legState, orders, submits, partial, notExecVars>>

\* mutant: success needs a fill on both legs
BothFilled(a, b) == ParseFloat(a) > 0 /\ ParseFloat(b) > 0

\* Execute, line 348: filledA > 0 || filledB > 0
AnyFilled(a, b) == ParseFloat(a) > 0 \/ ParseFloat(b) > 0

\* Execute, lines 345-355: the fill check
Evaluate ==
    /\ epc = "evaluate"
    /\ IF \E l \in Legs : status[l] = "nil"
       THEN /\ epc' = "panic"
            /\ UNCHANGED result
       ELSE IF AnyFilled(status["A"], status["B"])
       THEN /\ epc' = "done"
            /\ result' = [result EXCEPT !.Success = TRUE,
                                        !.FilledA = status["A"],
                                        !.FilledB = status["B"]]
       ELSE /\ epc' = "cancelA"
            /\ UNCHANGED result
    /\ UNCHANGED <<attempt, balance, urlsLeft, best, buyPrice, tradeAmount,
                   legState, status, orders, submits, partial, notExecVars>>

\* Execute, lines 359-360: CancelOrder for one leg's order (its result is
\* dropped); after the second the loop goes on
Cancel(l) ==
    /\ epc = IF l = "A" THEN "cancelA" ELSE "cancelB"
    /\ orders' = {IF o.id = OrderIdOf(attempt, l)
                  THEN [o EXCEPT !.cancelSent = TRUE] ELSE o : o \in orders}
    /\ IF l = "A"
       THEN /\ epc' = "cancelB"
            /\ UNCHANGED attempt
       ELSE /\ epc' = "loop"
            /\ attempt' = attempt + 1
    /\ UNCHANGED <<result, balance, urlsLeft, best, buyPrice, tradeAmount,
                   legState, status, submits, partial, notExecVars>>

NextExec ==
    \/ Setup
    \/ ProbeMarket
    \/ NoMarket
    \/ LoopHead
    \/ Refresh
    \/ PriceAndStart
    \/ \E l \in Legs : LegSubmit(l)
    \/ Join
    \/ \E l \in Legs : Poll(l)
    \/ Evaluate
    \/ \E l \in Legs : Cancel(l)

\* Execute has returned or the process has died
ExecEnded == epc \in {"done", "panic"}

(***************************************************************************)
(* MarketSwitcher.Run: the round scheduler.  Time is an integer clock; the  *)
(* session m.conn is seen from the scheduler: whether a Send succeeds, and  *)
(* which instruments the server has the session subscribed to.             *)
(***************************************************************************)
\* length of a round, in model time units
Period == 4
\* preSubSec, the lead time of the pre-subscription, in model time units
PreSub == 2
\* the grace window of Run (10 s), in model time units
Grace == 1
\* the clock when the program starts, and the last instant modelled
StartClock == 4
MaxTime == 12
\* network drops of the session
MaxDrops == 2
\* messageLoop goroutines the model may start
MaxMsgLoops == 2

\* the zero time.Time, which time.Parse returns with an error
ZeroTime == 0

NilRound ==
    [Slug |-> -1, UpTokenID |-> -1, DownTokenID |-> -1,
     StartTime |-> ZeroTime, EndTime |-> ZeroTime]

\* parseTokenIDs on the ClobTokenIds of the market found under a slug: two
\* ids of its own for every market
TokenIDs(slug) == <<2 * slug, 2 * slug + 1>>

\* time.Parse(time.RFC3339, event.EndDate) for the end dates the metadata
\* collaborator may return for the round that starts at startTime: the
\* round's end, or a missing / unparsable date (the error is dropped and the
\* zero time is used)
EndTimes(startTime) == {startTime + Period, ZeroTime}

\* fetchRound(ctx, startTime): NilRound stands for (nil, err)
FetchRound(startTime) ==
    {NilRound} \cup
    {[Slug |-> startTime,
      UpTokenID |-> TokenIDs(startTime)[1],
      DownTokenID |-> TokenIDs(startTime)[2],
      StartTime |-> startTime,
      EndTime |-> e] : e \in EndTimes(startTime)}

TokensOf(r) == {r.UpTokenID, r.DownTokenID}

\* calcCurrentRoundStart on the model clock
RoundStartAt(t) == (t \div Period) * Period

NilConn ==
    [nil |-> TRUE, payload |-> {}, connected |-> FALSE, subs |-> {},
     closed |-> FALSE, dropped |-> FALSE]

\* CreateMarketConnection(assetIDs), not yet connected
NewSession(assetIDs) == [NilConn EXCEPT !.nil = FALSE, !.payload = assetIDs]

\* Connection.Connect succeeded: the subscription payload was sent
Connected(c) == [c EXCEPT !.connected = TRUE, !.subs = c.payload, !.dropped = FALSE]

\* mutant: Subscribe also records the instruments in the payload
SessionSubscribeRecords(c, assetIDs) ==
    IF c.connected
    THEN [c EXCEPT !.subs = @ \cup assetIDs, !.payload = @ \cup assetIDs]
    ELSE c

\* Connection.Subscribe(assetIDs): Send fails when not connected
SessionSubscribe(c, assetIDs) ==
    IF c.connected THEN [c EXCEPT !.subs = @ \cup assetIDs] ELSE c

\* Connection.Unsubscribe(assetIDs)
SessionUnsubscribe(c, assetIDs) ==
    IF c.connected THEN [c EXCEPT !.subs = @ \ assetIDs] ELSE c

\* Connection.Close
SessionClose(c) ==
    IF c.nil THEN c ELSE [c EXCEPT !.connected = FALSE, !.subs = {}, !.closed = TRUE]

\* the one snapshot the model delivers
OneLevelSnapshot == [Bids |-> <<[Price |-> "0.45", Size |-> "5"]>>, Asks |-> <<>>]

InitSwitch ==
    /\ now = StartClock
    /\ rpc = "start"
    /\ current = NilRound
    /\ next = NilRound
    /\ upBook = NewOrderBook(-1, "UP")
    /\ downBook = NewOrderBook(-1, "DOWN")
    /\ mconn = NilConn
    /\ stopChan = FALSE
    /\ drops = 0
    /\ msgLoops = 0

\* time passes
Advance ==
    /\ now < MaxTime
    /\ now' = now + 1
    /\ UNCHANGED <<rpc, current, next, upBook, downBook, mconn, stopChan, drops,
                   msgLoops, notSwitchVars>>

\* Run, lines 354-369: the round to start with, and its metadata
RunStart ==
    /\ rpc = "start"
    /\ LET aligned == RoundStartAt(now)
           startTime == IF now - aligned > Grace THEN aligned + Period ELSE aligned
       IN  \E r \in FetchRound(startTime) :
             IF r = NilRound
             THEN rpc' = "returned" /\ UNCHANGED current
             ELSE rpc' = "subscribe" /\ current' = r
    /\ UNCHANGED <<now, next, upBook, downBook, mconn, stopChan, drops, msgLoops,
                   notSwitchVars>>

\* subscribe, lines 238-255: new books, a new session for the current
\* round's instruments, Connect
DoSubscribe(ok) ==
    /\ upBook' = NewOrderBook(current.UpTokenID, "UP")
    /\ downBook' = NewOrderBook(current.DownTokenID, "DOWN")
    /\ mconn' = IF ok THEN Connected(NewSession(TokensOf(current)))
                ELSE NewSession(TokensOf(current))

\* Run, lines 372-374
RunSubscribe ==
    /\ rpc = "subscribe"
    /\ \E ok \in BOOLEAN :
         /\ DoSubscribe(ok)
         /\ rpc' = IF ok THEN "wait" ELSE "returned"
    /\ UNCHANGED <<now, current, next, stopChan, drops, msgLoops, notSwitchVars>>

\* Run, lines 377-390: wait for the round to start, then start messageLoop
RunWait ==
    /\ rpc = "wait"
    /\ now >= current.StartTime
    /\ rpc' = "tick"
    /\ msgLoops' = msgLoops + 1
    /\ UNCHANGED <<now, current, next, upBook, downBook, mconn, stopChan, drops,
                   notSwitchVars>>

\* Run, lines 398-409: a tick of the 100 ms ticker; "remaining" is computed
\* once and decides both branches
Tick ==
    /\ rpc = "tick"
    /\ LET remaining == current.EndTime - now
       IN  rpc' = IF remaining > 0 /\ remaining < PreSub THEN "preSubscribe"
                  ELSE IF remaining <= 0 THEN "end"
                  ELSE "tick"
    /\ UNCHANGED <<now, current, next, upBook, downBook, mconn, stopChan, drops,
                   msgLoops, notSwitchVars>>

\* preSubscribeNext, lines 259-269: nothing to do when a next round is held;
\* else fetch it and record it
PreSubscribeFetch ==
    /\ rpc = "preSubscribe"
    /\ IF next # NilRound
       THEN rpc' = "tick" /\ UNCHANGED next
       ELSE \E r \in FetchRound(current.EndTime) :
              IF r = NilRound
              THEN rpc' = "tick" /\ UNCHANGED next
              ELSE rpc' = "preSubscribeSend" /\ next' = r
    /\ UNCHANGED <<now, current, upBook, downBook, mconn, stopChan, drops,
                   msgLoops, notSwitchVars>>

\* preSubscribeNext, lines 272-277: Subscribe for the next round's
\* instruments; its error is returned to Run, which logs it
PreSubscribeSend ==
    /\ rpc = "preSubscribeSend"
    /\ mconn' = SessionSubscribe(mconn, TokensOf(next))
    /\ rpc' = "tick"
    /\ UNCHANGED <<now, current, next, upBook, downBook, stopChan, drops,
                   msgLoops, notSwitchVars>>

\* switchToNext, lines 281-298 (Run, lines 410-411); the result of
\* Unsubscribe is dropped
SwitchToNext ==
    /\ rpc = "end"
    /\ next # NilRound
    /\ mconn' = SessionUnsubscribe(mconn, TokensOf(current))
    /\ current' = next
    /\ next' = NilRound
    /\ upBook' = NewOrderBook(next.UpTokenID, "UP")
    /\ downBook' = NewOrderBook(next.DownTokenID, "DOWN")
    /\ rpc' = "tick"
    /\ UNCHANGED <<now, stopChan, drops, msgLoops, notSwitchVars>>

\* Run, lines 413-421: no next round is held, the round is fetched now
FallbackFetch ==
    /\ rpc = "end"
    /\ next = NilRound
    /\ \E r \in FetchRound(current.EndTime) :
         IF r = NilRound
         THEN rpc' = "tick" /\ UNCHANGED current
         ELSE rpc' = "resubscribe" /\ current' = r
    /\ UNCHANGED <<now, next, upBook, downBook, mconn, stopChan, drops, msgLoops,
                   notSwitchVars>>

\* Run, lines 422-428: the session is closed and a new one is made; on
\* success one more messageLoop is started
FallbackResubscribe ==
    /\ rpc = "resubscribe"
    /\ msgLoops < MaxMsgLoops
    /\ \E ok \in BOOLEAN :
         /\ DoSubscribe(ok)
         /\ msgLoops' = IF ok THEN msgLoops + 1 ELSE msgLoops
    /\ rpc' = "tick"
    /\ UNCHANGED <<now, current, next, stopChan, drops, notSwitchVars>>

\* handleBook, lines 301-311: a snapshot for an instrument the session is
\* subscribed to is routed by its asset id
HandleBook ==
    /\ msgLoops > 0
    /\ rpc \notin {"start", "subscribe", "returned"}
    /\ \E a \in mconn.subs :
         /\ upBook' = IF a = current.UpTokenID
                      THEN ApplySnapshot(upBook, OneLevelSnapshot) ELSE upBook
         /\ downBook' = IF a # current.UpTokenID /\ a = current.DownTokenID
                        THEN ApplySnapshot(downBook, OneLevelSnapshot) ELSE downBook
    /\ UNCHANGED <<now, rpc, current, next, mconn, stopChan, drops, msgLoops,
                   notSwitchVars>>

\* the network drops the session: the server forgets its subscriptions
SessionDrop ==
    /\ mconn.connected
    /\ drops < MaxDrops
    /\ drops' = drops + 1
    /\ mconn' = [mconn EXCEPT !.connected = FALSE, !.subs = {}, !.dropped = TRUE]
    /\ UNCHANGED <<now, rpc, current, next, upBook, downBook, stopChan, msgLoops,
                   notSwitchVars>>

\* the session's reconnect timer fires and Connect succeeds: Connect sends
\* the subscription payload the session was made with
SessionReconnect ==
    /\ mconn.dropped
    /\ ~mconn.closed
    /\ mconn' = Connected(mconn)
    /\ UNCHANGED <<now, rpc, current, next, upBook, downBook, stopChan, drops,
                   msgLoops, notSwitchVars>>

\* Stop, lines 150-155, called once by the signal handler
Stop ==
    /\ ~stopChan
    /\ stopChan' = TRUE
    /\ mconn' = SessionClose(mconn)
    /\ UNCHANGED <<now, rpc, current, next, upBook, downBook, drops, msgLoops,
                   notSwitchVars>>

\* Run, lines 384-385 and 434-435: a select of Run takes the stop case
RunStopped ==
    /\ stopChan
    /\ rpc \in {"wait", "tick"}
    /\ rpc' = "returned"
    /\ UNCHANGED <<now, current, next, upBook, downBook, mconn, stopChan, drops,
                   msgLoops, notSwitchVars>>

NextSwitch ==
    \/ Advance
    \/ RunStart
    \/ RunSubscribe
    \/ RunWait
    \/ Tick
    \/ PreSubscribeFetch
    \/ PreSubscribeSend
    \/ SwitchToNext
    \/ FallbackFetch
    \/ FallbackResubscribe
    \/ HandleBook
    \/ SessionDrop
    \/ SessionReconnect
    \/ Stop
    \/ RunStopped

(***************************************************************************)
(* Connection.handleUserMessage: trade notifications and their dedup.      *)
(***************************************************************************)
\* user-channel frames the model delivers
MaxFrames == 5

\* TradeNotification.ID and .TradeID as the feed may send them ("" for none)
TradeIds == {"", "t1", "t2", "t3"}

\* a decoded user-channel frame
UserFrames == [event_type : {"trade", "order"}, id : TradeIds, trade_id : TradeIds]

\* handleUserMessage, lines 481-484: the id, else the trade_id
TradeIDOf(f) == IF f.id = "" THEN f.trade_id ELSE f.id

\* mutant: the key is looked up but not stored
LoadOrStoreForgets(m, k) == [stored |-> m, loaded |-> k \in m]

\* sync.Map.LoadOrStore(k, true) on the set of stored keys
LoadOrStore(m, k) == [stored |-> m \cup {k}, loaded |-> k \in m]

InitTrade ==
    /\ processedTrades = {}
    /\ onTrade = FALSE
    /\ tradeCalls = [i \in TradeIds |-> 0]
    /\ tradeSeen = {}
    /\ tradeFrames = 0
    /\ tradeDropped = 0

\* OnTrade(fn): the caller registers the trade callback
OnTrade ==
    /\ ~onTrade
    /\ onTrade' = TRUE
    /\ UNCHANGED <<processedTrades, tradeCalls, tradeSeen, tradeFrames,
                   tradeDropped, notTradeVars>>

\* handleUserMessage, lines 457-495, on one decoded frame
HandleUserMessage ==
    /\ tradeFrames < MaxFrames
    /\ tradeFrames' = tradeFrames + 1
    /\ \E f \in UserFrames :
         IF f.event_type = "trade" /\ onTrade
         THEN LET tradeID == TradeIDOf(f)
                  r == LoadOrStore(processedTrades, tradeID)
              IN  /\ tradeSeen' = tradeSeen \cup {tradeID}
                  /\ IF tradeID # ""
                     THEN /\ processedTrades' = r.stored
                          /\ IF r.loaded
                             THEN /\ tradeDropped' = tradeDropped + 1
                                  /\ UNCHANGED tradeCalls
                             ELSE /\ tradeCalls' = [tradeCalls EXCEPT ![tradeID] = @ + 1]
                                  /\ UNCHANGED tradeDropped
                     ELSE /\ tradeCalls' = [tradeCalls EXCEPT ![tradeID] = @ + 1]
                          /\ UNCHANGED <<processedTrades, tradeDropped>>
         ELSE UNCHANGED <<processedTrades, tradeCalls, tradeSeen, tradeDropped>>
    /\ UNCHANGED <<onTrade, notTradeVars>>

\* ClearProcessedTrades, lines 551-553; the observers start anew
ClearProcessedTrades ==
    /\ processedTrades # {}
    /\ processedTrades' = {}
    /\ tradeCalls' = [i \in TradeIds |-> 0]
    /\ tradeSeen' = {}
    /\ tradeDropped' = 0
    /\ UNCHANGED <<onTrade, tradeFrames, notTradeVars>>

NextTrade == OnTrade \/ HandleUserMessage \/ ClearProcessedTrades

(***************************************************************************)
(* IEEE-754 binary64 arithmetic, as Go's float64 computes: every operation *)
(* returns the exact result rounded to 53 significant bits, ties to even.  *)
(* The values of the model stay far from overflow and from the subnormal   *)
(* range.  Mantissas do not fit a 32-bit integer, so naturals of any size  *)
(* are little-endian sequences of 15-bit limbs without leading zero limbs. *)
(* An intermediate value that is used more than once is handed on as the   *)
(* argument of the operator that continues the computation.                *)
(***************************************************************************)
\* a limb holds 15 bits, so that the product of two limbs fits a 32-bit integer
LimbBase == 2 ^ 15
\* significant bits of a float64
Float64Bits == 53

Limb(a, i) == IF i >= 1 /\ i <= Len(a) THEN a[i] ELSE 0

\* the limbs f[1], ..., f[n] as a sequence
Limbs(f, n) == SubSeq(f, 1, n)

\* a without its zero limbs at the top
NNorm(a) ==
    IF \A i \in 1..Len(a) : a[i] = 0 THEN <<>>
    ELSE SubSeq(a, 1, CHOOSE i \in 1..Len(a) :
                          a[i] # 0 /\ \A j \in (i + 1)..Len(a) : a[j] = 0)

\* a natural below 2^31
NFromInt(i) ==
    NNorm(<<i % LimbBase, (i \div LimbBase) % LimbBase, i \div (LimbBase * LimbBase)>>)

NOne == <<1>>

\* the limb sums s with their carries: limb i receives a carry when a lower
\* limb overflows and every limb between passes the carry on
NAddCarry(s) ==
    NNorm(Limbs([i \in 1..Len(s) |->
                    (s[i] + (IF \E j \in 1..(i - 1) :
                                   /\ s[j] >= LimbBase
                                   /\ \A k \in (j + 1)..(i - 1) : s[k] = LimbBase - 1
                             THEN 1 ELSE 0)) % LimbBase],
                Len(s)))

\* the limb sums of two naturals of at most n limbs
NAddLimbs(a, b, n) ==
    NAddCarry(Limbs([i \in 1..(n + 1) |-> Limb(a, i) + Limb(b, i)], n + 1))

\* a + b
NAdd(a, b) ==
    IF a = <<>> THEN NNorm(b)
    ELSE IF b = <<>> THEN NNorm(a)
    ELSE NAddLimbs(a, b, IF Len(a) > Len(b) THEN Len(a) ELSE Len(b))

\* the limb differences d with their borrows
NSubBorrow(d) ==
    NNorm(Limbs([i \in 1..Len(d) |->
                    (d[i] - (IF \E j \in 1..(i - 1) :
                                   /\ d[j] < 0
                                   /\ \A k \in (j + 1)..(i - 1) : d[k] = 0
                             THEN 1 ELSE 0) + LimbBase) % LimbBase],
                Len(d)))

\* a - b for a >= b
NSub(a, b) ==
    IF b = <<>> THEN a
    ELSE NSubBorrow(Limbs([i \in 1..Len(a) |-> a[i] - Limb(b, i)], Len(a)))

\* a against b of the same length, by their highest differing limb i
NCmpAt(a, b, i) == IF a[i] > b[i] THEN 1 ELSE -1

\* -1, 0 or 1 as a < b, a = b or a > b
NCmp(a, b) ==
    IF Len(a) # Len(b) THEN (IF Len(a) > Len(b) THEN 1 ELSE -1)
    ELSE IF \A i \in 1..Len(a) : a[i] = b[i] THEN 0
    ELSE NCmpAt(a, b, CHOOSE i \in 1..Len(a) :
                          a[i] # b[i] /\ \A j \in (i + 1)..Len(a) : a[j] = b[j])

\* a * k for 0 <= k <= 2^15
NMulSmall(a, k) ==
    IF a = <<>> \/ k = 0 THEN <<>>
    ELSE
    NAdd(Limbs([i \in 1..Len(a) |-> (a[i] * k) % LimbBase], Len(a)),
         Limbs([i \in 1..(Len(a) + 1) |->
                    IF i = 1 THEN 0 ELSE (a[i - 1] * k) \div LimbBase], Len(a) + 1))

\* a * 2^(15 n)
NShlLimbs(a, n) == IF a = <<>> THEN a ELSE [i \in 1..n |-> 0] \o a

\* a * (limbs 1..j of b)
RECURSIVE NMulAt(_, _, _)
NMulAt(a, b, j) ==
    IF j = 0 THEN <<>>
    ELSE NAdd(NShlLimbs(NMulSmall(a, b[j]), j - 1), NMulAt(a, b, j - 1))

NMul(a, b) == NMulAt(a, b, Len(b))

\* a * 2^k
NShl(a, k) == NShlLimbs(NMulSmall(a, 2 ^ (k % 15)), k \div 15)

\* a \div 2^(15 w + k) for k < 15 and w < Len(a)
NShrLimbs(a, w, k) ==
    NNorm(Limbs([i \in 1..(Len(a) - w) |->
                    (a[i + w] \div (2 ^ k)) + (Limb(a, i + w + 1) % (2 ^ k)) * (2 ^ (15 - k))],
                Len(a) - w))

\* a \div 2^k
NShr(a, k) ==
    IF a = <<>> THEN a
    ELSE IF k \div 15 >= Len(a) THEN <<>>
    ELSE NShrLimbs(a, k \div 15, k % 15)

\* the n lowest limbs of a, of the highest only its bits below 2^k
NLowLimbs(a, n, k) ==
    NNorm(Limbs([i \in 1..n |-> IF i < n THEN a[i] ELSE a[i] % (2 ^ k)], n))

\* a % 2^k
NLowBits(a, k) ==
    IF a = <<>> THEN a
    ELSE IF Len(a) > k \div 15 THEN NLowLimbs(a, (k \div 15) + 1, k % 15)
    ELSE a

\* the number of bits of a
NBitLen(a) ==
    IF a = <<>> THEN 0
    ELSE 15 * (Len(a) - 1) + (CHOOSE n \in 1..15 : 2 ^ (n - 1) <= a[Len(a)] /\ a[Len(a)] < 2 ^ n)

NIsOdd(a) == a # <<>> /\ a[1] % 2 = 1

\* the largest digit at or below the estimate d whose product with b fits r
RECURSIVE QuotientFit(_, _, _)
QuotientFit(r, b, d) ==
    IF NCmp(NMulSmall(b, d), r) <= 0 THEN d ELSE QuotientFit(r, b, d - 1)

\* the quotient of the top limbs of r by the top limb of b (n limbs)
QuotientEstimate(r, b, n) ==
    (Limb(r, n + 1) * LimbBase + Limb(r, n)) \div b[n]

\* the digit r \div b for r < b * 2^15 and a divisor b whose top limb has
\* all its 15 bits: the quotient of the top limbs is the digit or exceeds it
\* by at most 2
QuotientDigit(r, b) ==
    QuotientFit(r, b, IF QuotientEstimate(r, b, Len(b)) > LimbBase - 1
                      THEN LimbBase - 1
                      ELSE QuotientEstimate(r, b, Len(b)))

\* long division, one limb of a at a time from the top: q and r are the
\* quotient and the remainder of the limbs of a above limb i
RECURSIVE NDivModAt(_, _, _, _, _)

\* the digit d of limb i is written and its product leaves the remainder r
NDivModDigit(a, b, i, q, r, d) ==
    NDivModAt(a, b, i - 1, <<d>> \o q, NSub(r, NMulSmall(b, d)))

\* the remainder r now holds limb i of a
NDivModStep(a, b, i, q, r) ==
    IF NCmp(r, b) < 0 THEN NDivModAt(a, b, i - 1, <<0>> \o q, r)
    ELSE NDivModDigit(a, b, i, q, r, QuotientDigit(r, b))

NDivModAt(a, b, i, q, r) ==
    IF i = 0 THEN [q |-> NNorm(q), r |-> r]
    ELSE NDivModStep(a, b, i, q, NNorm(<<a[i]>> \o r))

\* the quotient of the scaled division and its remainder scaled back
NDivModUnscale(dm, sh) == [q |-> dm.q, r |-> NShr(dm.r, sh)]

\* as and bs are a and b scaled by 2^sh; the division starts below the top
\* limbs of as that cannot hold the divisor
NDivModScaled(a, as, bs, sh) ==
    IF Len(as) < Len(bs) THEN [q |-> <<>>, r |-> a]
    ELSE NDivModUnscale(
             NDivModAt(as, bs, Len(as) - Len(bs) + 1, <<>>,
                       NNorm(SubSeq(as, Len(as) - Len(bs) + 2, Len(as)))),
             sh)

\* the bits the top limb of b leaves free
NHeadroom(b) == 15 * Len(b) - NBitLen(b)

\* quotient and remainder of a by b > 0; both are scaled first so that the
\* top limb of the divisor has all its bits
NDivMod(a, b) ==
    IF b = NOne THEN [q |-> a, r |-> <<>>]
    ELSE NDivModScaled(a, NShl(a, NHeadroom(b)), NShl(b, NHeadroom(b)), NHeadroom(b))

RECURSIVE NPow10(_)
NPow10(n) == IF n = 0 THEN NOne ELSE NMulSmall(NPow10(n - 1), 10)

\* a float64: s * m * 2^e with m = 0 or 2^52 <= m < 2^53
FZero == [s |-> 1, m |-> <<>>, e |-> 0]

\* the mantissa m1 after rounding has 53 bits, or 54 when it was rounded up
\* to a power of two
FRoundPack(s, e, m1) ==
    IF NBitLen(m1) > Float64Bits
    THEN [s |-> s, m |-> NShr(m1, 1), e |-> e + 1]
    ELSE [s |-> s, m |-> m1, e |-> e]

\* m0 is the quotient cut to 53 bits; c compares the bits cut off with one
\* half, and sticky tells that the division left a remainder
FRoundUp(s, e, m0, c, sticky) ==
    FRoundPack(s, e, IF c > 0 \/ (c = 0 /\ (sticky \/ NIsOdd(m0)))
                     THEN NAdd(m0, NOne)
                     ELSE m0)

\* the quotient dm.q has d bits more than a mantissa
FRoundCut(s, e, dm, d) ==
    FRoundUp(s, e + d, NShr(dm.q, d),
             NCmp(NLowBits(dm.q, d), NShl(NOne, d - 1)), dm.r # <<>>)

\* the quotient dm.q of the scaled division has at least 55 bits
FRoundQuot(s, e, dm) == FRoundCut(s, e, dm, NBitLen(dm.q) - Float64Bits)

\* num is scaled by 2^k, so that the quotient has at least 55 bits
FRoundShift(s, num, den, e, k) ==
    FRoundQuot(s, e - k, NDivMod(NShl(num, k), den))

\* the float64 nearest to s * (num / den) * 2^e, ties to even
FRound(s, num, den, e) ==
    IF num = <<>> THEN FZero
    ELSE FRoundShift(s, num, den, e,
                     IF Float64Bits + 2 + NBitLen(den) - NBitLen(num) > 0
                     THEN Float64Bits + 2 + NBitLen(den) - NBitLen(num)
                     ELSE 0)

\* strconv.ParseFloat of the decimal num / den; a float64 constant
FDec(num, den) == FRound(1, NFromInt(num), NFromInt(den), 0)

\* float64(n) for an integer n >= 0 of any size
FFromNat(n) == FRound(1, n, NOne, 0)

FNeg(x) == IF x.m = <<>> THEN x ELSE [x EXCEPT !.s = -x.s]

\* the sum of xs * a * 2^e and ys * b * 2^e, where c compares a with b
FAddAligned(xs, ys, a, b, e, c) ==
    FRound(IF xs = ys \/ c >= 0 THEN xs ELSE ys,
           IF xs = ys THEN NAdd(a, b)
           ELSE IF c >= 0 THEN NSub(a, b) ELSE NSub(b, a),
           NOne, e)

\* the sum of xs * a * 2^e and ys * b * 2^e
FAddMant(xs, ys, a, b, e) == FAddAligned(xs, ys, a, b, e, NCmp(a, b))

\* both mantissas are brought to the exponent e, the lower of the two
FAddAt(x, y, e) ==
    FAddMant(x.s, y.s, NShl(x.m, x.e - e), NShl(y.m, y.e - e), e)

FAdd(x, y) ==
    IF x.m = <<>> THEN y
    ELSE IF y.m = <<>> THEN x
    ELSE FAddAt(x, y, IF x.e < y.e THEN x.e ELSE y.e)

FSub(x, y) == FAdd(x, FNeg(y))

FMul(x, y) ==
    IF x.m = <<>> \/ y.m = <<>> THEN FZero
    ELSE FRound(x.s * y.s, NMul(x.m, y.m), NOne, x.e + y.e)

\* x / y for y # 0
FDiv(x, y) ==
    IF x.m = <<>> THEN FZero
    ELSE FRound(x.s * y.s, x.m, y.m, x.e - y.e)

\* the sign of a difference
FSign(x) == IF x.m = <<>> THEN 0 ELSE x.s

\* -1, 0 or 1
FCmp(x, y) == FSign(FSub(x, y))

FLess(x, y) == FCmp(x, y) < 0

\* int(x): the integer part of x >= 0, as a natural
FTrunc(x) == IF x.e >= 0 THEN NShl(x.m, x.e) ELSE NShr(x.m, -x.e)

\* q is p \div 2^k, and c compares the bits cut off with one half
FFixedUp(q, c) ==
    IF c > 0 \/ (c = 0 /\ NIsOdd(q)) THEN NAdd(q, NOne) ELSE q

\* p * 2^(-k) rounded to the nearest integer, ties to even
FFixedRound(p, k) ==
    FFixedUp(NShr(p, k), NCmp(NLowBits(p, k), NShl(NOne, k - 1)))

\* fmt.Sprintf("%.<n>f", x) for x >= 0, as the natural its digits spell
\* without the point: x * 10^n rounded to the nearest integer, ties to even
FFixed(x, n) ==
    IF x.m = <<>> THEN <<>>
    ELSE IF x.e >= 0 THEN NMul(NShl(x.m, x.e), NPow10(n))
    ELSE FFixedRound(NMul(x.m, NPow10(n)), -x.e)

(***************************************************************************)
(* Strategy.Execute, lines 290-292: the prices of the two legs of one      *)
(* attempt, in float64 as the program computes them.  The tick size and    *)
(* the best bid are parsed from the decimal strings of the order book.     *)
(***************************************************************************)
\* the best bids of the model are 1..MaxBidTicks ticks
MaxBidTicks == 40

\* decimals of the tick sizes 0.1, 0.01, 0.001 and 0.0001
TickDecimals == 1..4

RECURSIVE Pow10(_)
Pow10(n) == IF n = 0 THEN 1 ELSE 10 * Pow10(n - 1)

\* the float64 1.0
FOne == FDec(1, 1)

\* strconv.ParseFloat(book.TickSize, 64)
TickSizeOf(d) == FDec(1, Pow10(d))

\* parseBestPrices: the best bid of k ticks, parsed from its decimal string
BestBidOf(k, d) == FDec(k, Pow10(d))

\* best bids on the tick grid that leave room for one tick below 1
BidTicksOf(d) ==
    {k \in 1..MaxBidTicks : k + 1 < Pow10(d)}

\* common.AlignPrice(price, tickSize, "BUY") for tickSize > 0, in float64
AlignPriceBuy(price, tick) ==
    FMul(FFromNat(FTrunc(FDiv(price, tick))), tick)

\* roundTo(v, decimals) for v >= 0
roundTo(v, decimals) ==
    LET p == FFromNat(NPow10(decimals))
    IN  FDiv(FFromNat(FTrunc(FAdd(FMul(v, p), FDec(5, 10)))), p)

InitQuote ==
    /\ quoted = FALSE
    /\ tickDecimals = 0
    /\ bidTicks = 0
    /\ tickSize = FZero
    /\ bestBid = FZero
    /\ yesBuyPrice = FZero
    /\ noBuyPrice = FZero

\* one attempt computes its two prices from the book it read
ComputePrices ==
    /\ ~quoted
    /\ \E d \in TickDecimals : \E k \in BidTicksOf(d) :
          /\ tickDecimals' = d
          /\ bidTicks' = k
          /\ tickSize' = TickSizeOf(d)
          /\ bestBid' = BestBidOf(k, d)
    /\ yesBuyPrice' = AlignPriceBuy(FAdd(bestBid', tickSize'), tickSize')
    /\ noBuyPrice' = roundTo(FSub(FOne, yesBuyPrice'), 4)
    /\ quoted' = TRUE
    /\ UNCHANGED notQuoteVars

\* the next attempt reads the book again
NextAttempt ==
    /\ quoted
    /\ quoted' = FALSE
    /\ tickDecimals' = 0
    /\ bidTicks' = 0
    /\ tickSize' = FZero
    /\ bestBid' = FZero
    /\ yesBuyPrice' = FZero
    /\ noBuyPrice' = FZero
    /\ UNCHANGED notQuoteVars

NextQuote == ComputePrices \/ NextAttempt

(***************************************************************************)
(* clob.Client.CreateOrder / OrderBuilder.BuildOrder: the amounts of a      *)
(* limit order, in float64 as calculateOrderAmounts computes them.  The     *)
(* caller's size and price are decimal numbers (a size in thousandths, a    *)
(* price in ten-thousandths), converted to the nearest float64.             *)
(***************************************************************************)
\* sizes of the model, in 1/1000 of a share
OrderSizes == {0, 5, 290, 570, 1000, 10126}

\* prices of the model, in 1/10000
OrderPrices == {40, 4567, 5000, 9990}

OrderSides == {"BUY", "SELL"}

\* private keys handed to NewClient: one that parses and one that does not
PrivateKeys == {"hex64", "malformed"}

NilOrder == [nil |-> TRUE]

NoUserOrder == [Side |-> "", Size |-> 0, Price |-> 0, TickDecimals |-> 0]

\* roundingConfigs[tickSize] for the tick sizes 0.1, 0.01, 0.001 and 0.0001,
\* by the number d of decimals of the tick size
roundingConfigs(d) == [Price |-> d, Size |-> 2, Amount |-> d + 2]

\* pow10(n): n exact multiplications by 10 (exact up to 10^22)
pow10(n) == FFromNat(NPow10(n))

roundNormal(value, decimals) ==
    FDiv(FFromNat(FTrunc(FAdd(FMul(value, pow10(decimals)), FDec(5, 10)))),
         pow10(decimals))

roundDown(value, decimals) ==
    FDiv(FFromNat(FTrunc(FMul(value, pow10(decimals)))), pow10(decimals))

roundUp(value, decimals) ==
    FDiv(FFromNat(NAdd(FTrunc(FMul(value, pow10(decimals))), NOne)),
         pow10(decimals))

\* decimalPlaces(value): the digits of "%.10f" after the point that are left
\* when the trailing zeros are trimmed
RECURSIVE TrimmedLen(_, _)
TrimmedLen(digits, n) ==
    IF n = 0 \/ digits = <<>> THEN 0
    ELSE LET dm == NDivMod(digits, NFromInt(10))
         IN  IF dm.r = <<>> THEN TrimmedLen(dm.q, n - 1) ELSE n

decimalPlaces(value) ==
    LET all == FFixed(value, 10)
    IN  TrimmedLen(NDivMod(all, NPow10(10)).r, 10)

\* mutant: the amount times 10^6, computed in float64, is truncated
toUnitsTruncating(value) == FTrunc(FMul(value, pow10(6)))

\* toUnits(value): the digits of "%.6f" without the point, as a big.Int
toUnits(value) == FFixed(value, 6)

\* calculateOrderAmounts, lines 282-284 and 296-298: the amount rounded up
\* at the widened precision, truncated when it is still beyond the limit
LimitRounded(up, limit) ==
    IF decimalPlaces(up) > limit THEN roundDown(up, limit) ELSE up

\* the amount of the side that is size * price, brought to the amount limit
\* (calculateOrderAmounts, lines 280-285 and 294-299)
LimitAmount(amt, limit) ==
    IF decimalPlaces(amt) > limit
    THEN LimitRounded(roundUp(amt, limit + 4), limit)
    ELSE amt

InitOrder ==
    /\ orderBuilder = "nil"
    /\ newClientErr = ""
    /\ userOrder = NoUserOrder
    /\ rawPrice = FZero
    /\ rawSize = FZero
    /\ rawAmt = FZero
    /\ signedOrder = NilOrder
    /\ buildErr = ""

\* NewClient(cfg): the private key is parsed here, and a client (with its
\* order builder) exists only when it parses
NewClient ==
    /\ orderBuilder = "nil"
    /\ \E key \in PrivateKeys :
          IF key = "malformed"
          THEN /\ newClientErr' = "parse private key"
               /\ UNCHANGED orderBuilder
          ELSE /\ newClientErr' = ""
               /\ orderBuilder' = "set"
    /\ UNCHANGED <<userOrder, rawPrice, rawSize, rawAmt, signedOrder, buildErr>>
    /\ UNCHANGED notOrderVars

\* Client.CreateOrder(order, opts) = orderBuilder.BuildOrder(order, opts):
\* the amounts are computed and the order is signed; signing with a parsed
\* key does not fail, and nothing else returns an error.  BuildOrder keeps
\* nothing from one call to the next, so a behaviour follows one call.
BuildOrder ==
    /\ orderBuilder = "set"
    /\ userOrder = NoUserOrder
    /\ \E side \in OrderSides, size \in OrderSizes, price \in OrderPrices,
          d \in TickDecimals :
          userOrder' = [Side |-> side, Size |-> size, Price |-> price,
                        TickDecimals |-> d]
    /\ rawPrice' = roundNormal(FDec(userOrder'.Price, 10000),
                               roundingConfigs(userOrder'.TickDecimals).Price)
    /\ rawSize' = roundDown(FDec(userOrder'.Size, 1000),
                            roundingConfigs(userOrder'.TickDecimals).Size)
    /\ rawAmt' = LimitAmount(FMul(rawSize', rawPrice'),
                             roundingConfigs(userOrder'.TickDecimals).Amount)
    /\ signedOrder' =
          IF userOrder'.Side = "BUY"
          THEN [nil |-> FALSE, Side |-> "BUY",
                MakerAmount |-> toUnits(rawAmt'), TakerAmount |-> toUnits(rawSize')]
          ELSE [nil |-> FALSE, Side |-> "SELL",
                MakerAmount |-> toUnits(rawSize'), TakerAmount |-> toUnits(rawAmt')]
    /\ buildErr' = ""
    /\ UNCHANGED <<orderBuilder, newClientErr>>
    /\ UNCHANGED notOrderVars

NextOrder == NewClient \/ BuildOrder

(***************************************************************************)
(* OrderBook.GetBestBid / GetBestAsk over the book the feed has built.     *)
(* The maps are keyed by the price strings of the feed; "for range" visits *)
(* the keys of a Go map in an order the language leaves open.              *)
(***************************************************************************)
\* price strings of the feed: ".45" and "0.45" spell the same number
FeedPrices == Prices \cup {".45"}

\* strconv.ParseFloat(s, 64) of the strings of the model, in 1/100
ParseLevel(s) ==
    CASE s = "0.45" -> 45
      [] s = ".45" -> 45
      [] s = "0.46" -> 46
      [] s = "0" -> 0
      [] s = "5" -> 500
      [] s = "12" -> 1200

\* the orders in which a range loop can visit the keys of a map
KeyOrders(m) ==
    {q \in SeqsUpTo(DOMAIN m, Cardinality(DOMAIN m)) :
        /\ Len(q) = Cardinality(DOMAIN m)
        /\ \A i, j \in 1..Len(q) : i # j => q[i] # q[j]}

\* the initial value of "best" in GetBestAsk: 999
AskSentinel == 99900

\* the loop of GetBestBid over the keys in the order given
RECURSIVE ScanBids(_, _, _, _)
ScanBids(m, order, price, size) ==
    IF order = <<>> THEN [price |-> price, size |-> size]
    ELSE LET p == Head(order)
         IN  IF ParseLevel(p) > price
             THEN ScanBids(m, Tail(order), ParseLevel(p), ParseLevel(m[p]))
             ELSE ScanBids(m, Tail(order), price, size)

\* the loop of GetBestAsk and the test of the sentinel that follows it
RECURSIVE ScanAsks(_, _, _, _)
ScanAsks(m, order, bestSoFar, size) ==
    IF order = <<>>
    THEN IF bestSoFar = AskSentinel THEN [price |-> 0, size |-> 0]
         ELSE [price |-> bestSoFar, size |-> size]
    ELSE LET p == Head(order)
         IN  IF ParseLevel(p) < bestSoFar
             THEN ScanAsks(m, Tail(order), ParseLevel(p), ParseLevel(m[p]))
             ELSE ScanAsks(m, Tail(order), bestSoFar, size)

NoBest == [op |-> "none", price |-> 0, size |-> 0]

InitBest == bestResult = NoBest

\* one change of a "price_change" frame, with the price as the feed spells it
OnFeedPriceChange ==
    \E e \in [Side : EventSides, Price : FeedPrices, Size : Sizes] :
        /\ ob' = ApplyPriceChange(ob, e)
        /\ lastOp' = [kind |-> "delta", snapshot |-> NoSnapshot, event |-> e,
                      hadLevel |-> e.Price \in DOMAIN SideOf(ob, e.Side),
                      hadOther |-> FALSE]
        /\ bestResult' = NoBest
        /\ UNCHANGED notFeedVars

GetBestBid ==
    /\ \E order \in KeyOrders(ob.Bids) :
          bestResult' = [op |-> "bid"] @@ ScanBids(ob.Bids, order, 0, 0)
    /\ UNCHANGED notBestVars

GetBestAsk ==
    /\ \E order \in KeyOrders(ob.Asks) :
          bestResult' = [op |-> "ask"] @@ ScanAsks(ob.Asks, order, AskSentinel, 0)
    /\ UNCHANGED notBestVars

NextBest == OnFeedPriceChange \/ GetBestBid \/ GetBestAsk

(***************************************************************************)
(* calcCurrentRoundStart: the start of the round the wall clock is in.     *)
(* A time.Time in UTC is its Unix second; the calendar fields the code     *)
(* reads are computed from it, and time.Date builds a second back.         *)
(***************************************************************************)
\* the last day of the model's clock (day 0 is 1970-01-01)
MaxDay == 1

DaySeconds == 86400

Periods == {"15m", "1h", "4h", "daily"}

\* the wall-clock readings of the model: every hour of each day, at some
\* minutes and seconds around the period boundaries
ClockTimes ==
    {d * DaySeconds + h * 3600 + m * 60 + s :
        d \in 0..MaxDay, h \in 0..23, m \in {0, 7, 15, 59}, s \in {0, 33, 59}}

\* now.Hour(), now.Minute(), now.Second() and the day of now.Year(),
\* now.Month(), now.Day()
HourOf(t) == (t % DaySeconds) \div 3600
MinuteOf(t) == (t % 3600) \div 60
SecondOf(t) == t % 60
DayOf(t) == t \div DaySeconds

\* time.Date(year, month, day, 0, 0, sec, 0, time.UTC) for the day numbered d
DateOf(d, sec) == d * DaySeconds + sec

\* getPeriodDuration(), in seconds
getPeriodDuration ==
    CASE period = "15m" -> 15 * 60
      [] period = "1h" -> 3600
      [] period = "4h" -> 4 * 3600
      [] period = "daily" -> 24 * 3600
      [] OTHER -> 15 * 60

\* mutant: the seconds of the day are counted without the hours
calcCurrentRoundStartNoHours(t) ==
    IF period = "daily" THEN DateOf(DayOf(t), 0)
    ELSE LET periodSec == getPeriodDuration
             currentSec == MinuteOf(t) * 60 + SecondOf(t)
             alignedSec == (currentSec \div periodSec) * periodSec
         IN  DateOf(DayOf(t), alignedSec)

\* calcCurrentRoundStart() when time.Now().UTC() is t
calcCurrentRoundStart(t) ==
    IF period = "daily" THEN DateOf(DayOf(t), 0)
    ELSE LET periodSec == getPeriodDuration
             currentSec == HourOf(t) * 3600 + MinuteOf(t) * 60 + SecondOf(t)
             alignedSec == (currentSec \div periodSec) * periodSec
         IN  DateOf(DayOf(t), alignedSec)

NoStart == -1

InitRound ==
    /\ period = "15m"
    /\ clockNow = 0
    /\ roundStart = NoStart

\* the program is built with another period in its configuration block
SetPeriod ==
    /\ roundStart = NoStart
    /\ \E p \in Periods \ {period} : period' = p
    /\ UNCHANGED <<clockNow, roundStart>>
    /\ UNCHANGED notRoundVars

\* a call of calcCurrentRoundStart; the clock does not go back
CalcRoundStart ==
    /\ \E t \in ClockTimes :
          /\ t >= clockNow
          /\ clockNow' = t
          /\ roundStart' = calcCurrentRoundStart(t)
    /\ UNCHANGED period
    /\ UNCHANGED notRoundVars

NextRound == SetPeriod \/ CalcRoundStart

(***************************************************************************)
(* toUnits on its own: the amount is a decimal number with seven decimal   *)
(* places, converted to the nearest float64.                               *)
(***************************************************************************)
\* the amounts of the model are some round amounts plus 0..UnitSpread
\* ten-millionths
UnitSpread == 19

UnitBases == {0, 2900000, 10000000, 12345670, 46552000, 99999990}

UnitInputs == {b + j : b \in UnitBases, j \in 0..UnitSpread}

\* a natural below 2^31 as an integer
NToInt(a) == Limb(a, 1) + Limb(a, 2) * LimbBase + Limb(a, 3) * LimbBase * LimbBase

NoAmount == -1

InitUnits ==
    /\ unitsIn = NoAmount
    /\ unitsOut = 0

\* one call of toUnits; it keeps nothing from one call to the next
ToUnits ==
    /\ unitsIn = NoAmount
    /\ \E n \in UnitInputs : unitsIn' = n
    /\ unitsOut' = NToInt(toUnits(FDec(unitsIn', Pow10(7))))
    /\ UNCHANGED notUnitsVars

NextUnits == ToUnits

(***************************************************************************)
(* messageLoop against the tick loop, statement by statement.  Run and     *)
(* messageLoop are two goroutines that share m.current, m.next, m.upBook   *)
(* and m.downBook without a lock, so a handler's two reads (the Round's    *)
(* ids, then the book pointer) and switchToNext's writes (the Rounds, then *)
(* the books) interleave.                                                  *)
(***************************************************************************)
InitHandle ==
    /\ hpc = "idle"
    /\ hAsset = -1

\* handleBook, lines 302-306 (handlePriceChange, lines 315-319): an event of
\* an instrument the session is subscribed to is taken from the channel and
\* compared with m.current.UpTokenID and m.current.DownTokenID; any other
\* event is dropped
HandleRoute ==
    /\ msgLoops > 0
    /\ rpc \notin {"start", "subscribe", "returned"}
    /\ hpc = "idle"
    /\ \E a \in mconn.subs :
         IF a = current.UpTokenID
         THEN hpc' = "up" /\ hAsset' = a
         ELSE IF a = current.DownTokenID
         THEN hpc' = "down" /\ hAsset' = a
         ELSE UNCHANGED <<hpc, hAsset>>
    /\ UNCHANGED notHandleVars

\* handleBook, lines 303 and 305: m.upBook or m.downBook is read and the
\* snapshot is applied to the book found there
HandleApply ==
    /\ hpc # "idle"
    /\ upBook' = IF hpc = "up" THEN ApplySnapshot(upBook, OneLevelSnapshot)
                 ELSE upBook
    /\ downBook' = IF hpc = "down" THEN ApplySnapshot(downBook, OneLevelSnapshot)
                   ELSE downBook
    /\ hpc' = "idle"
    /\ hAsset' = -1
    /\ UNCHANGED <<now, rpc, current, next, mconn, stopChan, drops, msgLoops,
                   notRunVars>>

\* switchToNext, lines 282-291: Unsubscribe for the old instruments, then
\* m.current = m.next and m.next = nil
SwitchPromote ==
    /\ rpc = "end"
    /\ next # NilRound
    /\ mconn' = SessionUnsubscribe(mconn, TokensOf(current))
    /\ current' = next
    /\ next' = NilRound
    /\ rpc' = "switchBooks"
    /\ UNCHANGED <<now, upBook, downBook, stopChan, drops, msgLoops, notSwitchVars>>

\* switchToNext, lines 293-295: the two books are replaced
SwitchBooks ==
    /\ rpc = "switchBooks"
    /\ upBook' = NewOrderBook(current.UpTokenID, "UP")
    /\ downBook' = NewOrderBook(current.DownTokenID, "DOWN")
    /\ rpc' = "tick"
    /\ UNCHANGED <<now, current, next, mconn, stopChan, drops, msgLoops,
                   notSwitchVars>>

NextHandle ==
    \/ Advance
    \/ RunStart
    \/ RunSubscribe
    \/ RunWait
    \/ Tick
    \/ PreSubscribeFetch
    \/ PreSubscribeSend
    \/ SwitchPromote
    \/ SwitchBooks
    \/ FallbackFetch
    \/ FallbackResubscribe
    \/ HandleRoute
    \/ HandleApply
    \/ SessionDrop
    \/ SessionReconnect
    \/ Stop
    \/ RunStopped

(***************************************************************************)
(* The HTTP request functions: HTTPClient.Get and HTTPClient.Post          *)
(* (common/contracts.go) and Client.doRequest (clob), which every          *)
(* authenticated CLOB request goes through.                                *)
(***************************************************************************)
\* HTTPClient.retry (ClientConfig.Retry, 2 when not configured)
HTTPRetry == 2

StatusCodes == {200, 400, 401, 429, 500, 503}

\* what one attempt gets: a transport error of Client.Do, an error of
\* io.ReadAll on the response body, or a response with a status code
Outcomes ==
    {[err |-> e, code |-> 0] : e \in {"transport", "read"}} \cup
    {[err |-> "", code |-> c] : c \in StatusCodes}

HTTPFuncs == {"Get", "Post", "doRequest"}

NoError == [msg |-> "", code |-> 0]

\* resp.StatusCode == 429 || resp.StatusCode >= 500
RetryableStatus(code) == code = 429 \/ code >= 500

InitHttp ==
    /\ httpPc = "idle"
    /\ httpFunc = ""
    /\ httpTry = 0
    /\ bodyReader = "none"
    /\ sentBodies = <<>>
    /\ sleeps = <<>>
    /\ outcomes = <<>>
    /\ httpErr = NoError

\* a caller enters one of the request functions; Post builds bodyReader
\* once, before its loop (contracts.go lines 282-289), and the callers of
\* doRequest build the request with its body
HTTPCall ==
    /\ httpPc = "idle"
    /\ \E f \in HTTPFuncs :
         /\ httpFunc' = f
         /\ bodyReader' = IF f = "Get" THEN "none" ELSE "full"
    /\ httpPc' = "attempt"
    /\ UNCHANGED <<httpTry, sentBodies, sleeps, outcomes, httpErr, notHttpVars>>

\* what is left in bodyReader after Client.Do: a response means the body
\* was read to its end; a transport error may come before or after
AfterDo(o, consumed) ==
    IF bodyReader = "none" THEN "none"
    ELSE IF o.err = "transport" /\ ~consumed THEN bodyReader
    ELSE "empty"

\* one pass of the loop of Get (lines 226-264) or Post (lines 292-329)
HTTPAttempt ==
    /\ httpPc = "attempt"
    /\ httpFunc \in {"Get", "Post"}
    /\ \E o \in Outcomes, consumed \in BOOLEAN :
         /\ sentBodies' = Append(sentBodies, bodyReader)
         /\ outcomes' = Append(outcomes, o)
         /\ bodyReader' = AfterDo(o, consumed)
         /\ IF o.err = "transport"
            THEN IF httpTry < HTTPRetry
                 THEN /\ sleeps' = Append(sleeps, httpTry + 1)
                      /\ httpTry' = httpTry + 1
                      /\ UNCHANGED <<httpPc, httpErr>>
                 ELSE /\ httpPc' = "returned"
                      /\ httpErr' = [msg |-> "do request", code |-> 0]
                      /\ UNCHANGED <<sleeps, httpTry>>
            ELSE IF o.err = "read"
            THEN /\ httpTry' = httpTry + 1
                 /\ IF httpTry < HTTPRetry
                    THEN /\ sleeps' = Append(sleeps, 0)
                         /\ UNCHANGED <<httpPc, httpErr>>
                    ELSE /\ httpPc' = "returned"
                         /\ httpErr' = [msg |-> "read", code |-> 0]
                         /\ UNCHANGED sleeps
            ELSE IF o.code >= 400 /\ RetryableStatus(o.code) /\ httpTry < HTTPRetry
            THEN /\ sleeps' = Append(sleeps, 2 * (httpTry + 1))
                 /\ httpTry' = httpTry + 1
                 /\ UNCHANGED <<httpPc, httpErr>>
            ELSE /\ httpPc' = "returned"
                 /\ httpErr' = IF o.code >= 400 THEN [msg |-> "HTTP", code |-> o.code]
                               ELSE NoError
                 /\ UNCHANGED <<sleeps, httpTry>>
    /\ UNCHANGED <<httpFunc, notHttpVars>>

\* doRequest, part_006 lines 1263-1287: one Do, no loop
DoRequest ==
    /\ httpPc = "attempt"
    /\ httpFunc = "doRequest"
    /\ \E o \in Outcomes :
         /\ sentBodies' = Append(sentBodies, bodyReader)
         /\ outcomes' = Append(outcomes, o)
         /\ bodyReader' = AfterDo(o, TRUE)
         /\ httpErr' = IF o.err = "transport" THEN [msg |-> "do request", code |-> 0]
                       ELSE IF o.err = "read" THEN [msg |-> "read response", code |-> 0]
                       ELSE IF o.code >= 400 THEN [msg |-> "HTTP", code |-> o.code]
                       ELSE NoError
    /\ httpPc' = "returned"
    /\ UNCHANGED <<httpFunc, httpTry, sleeps, notHttpVars>>

NextHttp == HTTPCall \/ HTTPAttempt \/ DoRequest

(***************************************************************************)
(* Connection.Send and its callers on one connected session: the heartbeat *)
(* goroutine of startPing, the read loop (handleMessage answers a PING     *)
(* with a PONG), and a caller of Send, Subscribe or Unsubscribe.           *)
(***************************************************************************)
\* frames written before the model stops
MaxWrites == 4

Writers == {"heartbeat", "readLoop", "caller"}

\* what a caller sends: Send(data), Subscribe or Unsubscribe
CallerFrames == {"data", "subscribe", "unsubscribe"}

InitWrite ==
    /\ writing = [w \in Writers |-> ""]
    /\ frames = 0
    /\ writeOpen = TRUE

\* Send, lines 268-292: conn and isConnected are read under the read lock,
\* the lock is released, and conn.WriteMessage is entered with no lock held
Send(w, frame) ==
    /\ writing[w] = ""
    /\ frames < MaxWrites
    /\ IF writeOpen
       THEN writing' = [writing EXCEPT ![w] = frame]
       ELSE UNCHANGED writing
    /\ UNCHANGED <<frames, writeOpen, notWriteVars>>

\* startPing, lines 306-311: a tick of the heartbeat timer
PingTick ==
    /\ writeOpen
    /\ Send("heartbeat", "PING")

\* handleMessage, lines 361-364: the read loop has read a PING
PongReply ==
    /\ writing["readLoop"] = ""
    /\ Send("readLoop", "PONG")

\* Send, Subscribe (lines 556-564) or Unsubscribe (567-575) by a caller
CallerSend ==
    /\ writing["caller"] = ""
    /\ \E f \in CallerFrames : Send("caller", f)

\* conn.WriteMessage returns
WriteReturns(w) ==
    /\ writing[w] # ""
    /\ writing' = [writing EXCEPT ![w] = ""]
    /\ frames' = frames + 1
    /\ UNCHANGED <<writeOpen, notWriteVars>>

\* Close or handleClose: isConnected becomes false
WriteClose ==
    /\ writeOpen
    /\ writeOpen' = FALSE
    /\ UNCHANGED <<writing, frames, notWriteVars>>

NextWrite ==
    \/ PingTick
    \/ PongReply
    \/ CallerSend
    \/ \E w \in Writers : WriteReturns(w)
    \/ WriteClose

Init == InitBook /\ InitConn /\ InitExec /\ InitSwitch /\ InitTrade /\ InitQuote /\ InitOrder /\ InitBest /\ InitRound /\ InitUnits /\ InitHandle /\ InitHttp /\ InitWrite

SpecBook == Init /\ [][NextBook]_vars

SpecConn == Init /\ [][NextConn]_vars

SpecExec == Init /\ [][NextExec]_vars

SpecSwitch == Init /\ [][NextSwitch]_vars

\* Execute is one sequential function: each step is a bounded computation or
\* a collaborator call that returns (the HTTP clients carry a timeout, and
\* wg.Wait waits for two such calls), so the run always takes its next step
SpecExecFair == Init /\ [][NextExec]_vars /\ WF_vars(NextExec)

SpecTrade == Init /\ [][NextTrade]_vars

SpecQuote == Init /\ [][NextQuote]_vars

\* a step of a task of the session: of a Connect or Close that is under way,
\* of a reconnect timer or its callback, of a read loop that has no frame to
\* wait for, or of a heartbeat goroutine
ConnTaskStep ==
    \/ \E t \in Threads : ConnectEnter(t)
    \/ \E t \in Threads : DialFail(t)
    \/ \E t \in Threads : DialOk(t)
    \/ \E t \in Threads : Subscribe(t)
    \/ \E t \in Threads : StartLoops(t)
    \/ \E t \in Threads : CloseMark(t)
    \/ \E t \in Threads : CloseStopPing(t)
    \/ \E t \in Threads : CloseStopReconnect(t)
    \/ \E t \in Threads : CloseSocket(t)
    \/ \E t \in Threads : CloseStopCh(t)
    \/ \E l \in Loops : LoopTop(l)
    \/ \E l \in Loops : LoopReadError(l)
    \/ \E l \in Loops : HandleClose(l)
    \/ \E l \in Loops : TryReconnect(l)
    \/ \E l \in Loops : ArmTimer(l)
    \/ \E t \in Timers : TimerFire(t)
    \/ \E t \in Timers : TimerCallback(t)
    \/ PingStop

\* the Go scheduler runs every goroutine that can run, and a timer fires when
\* its delay has passed; calls of the caller, network failures and arriving
\* frames are not owed
SpecConnFair == Init /\ [][NextConn]_vars /\ WF_vars(ConnTaskStep)

SpecOrder == Init /\ [][NextOrder]_vars

SpecBest == Init /\ [][NextBest]_vars

SpecRound == Init /\ [][NextRound]_vars

SpecUnits == Init /\ [][NextUnits]_vars

SpecHandle == Init /\ [][NextHandle]_vars

SpecHttp == Init /\ [][NextHttp]_vars

SpecWrite == Init /\ [][NextWrite]_vars

(***************************************************************************)
(* Order-book claims (checked under SpecBook)                              *)
(***************************************************************************)
NoZeroIn(m) == \A p \in DOMAIN m : m[p] # "0"

\* C1: after a snapshot and any sequence of deltas neither Bids nor Asks holds
\* an entry of size "0"; a delta of size "0" leaves no level at its price on
\* its side (it removes a present level and never stores one).
C1_NoZeroSizeEntry ==
    /\ NoZeroIn(ob.Bids)
    /\ NoZeroIn(ob.Asks)
    /\ (lastOp.kind = "delta" /\ lastOp.event.Size = "0")
          => lastOp.event.Price \notin DOMAIN SideOf(ob, lastOp.event.Side)

\* a "0" delta hit a level that was present, after an earlier snapshot or delta
C1_Witness ==
    /\ lastOp.kind = "delta"
    /\ lastOp.event.Size = "0"
    /\ lastOp.hadLevel
    /\ DOMAIN ob.Bids \cup DOMAIN ob.Asks # {}

\* the prices a slice of levels carries with a size other than "0"
LivePrices(levels) ==
    {levels[i].Price : i \in {j \in 1..Len(levels) : levels[j].Size # "0"}}

\* the size of the last entry of the slice at price p whose size is not "0"
LastLiveSize(levels, p) ==
    LET idx == {j \in 1..Len(levels) : levels[j].Price = p /\ levels[j].Size # "0"}
        last == CHOOSE j \in idx : \A k \in idx : k <= j
    IN  levels[last].Size

SideIsExactly(m, levels) ==
    /\ DOMAIN m = LivePrices(levels)
    /\ \A p \in DOMAIN m : m[p] = LastLiveSize(levels, p)

\* C2: right after ApplySnapshot(s) the book holds exactly the price levels of
\* s whose size is not "0" (whatever it held before), and applying s once more
\* leaves the book as it is.
C2_SnapshotReplaces ==
    lastOp.kind = "snapshot" =>
        /\ SideIsExactly(ob.Bids, lastOp.snapshot.Bids)
        /\ SideIsExactly(ob.Asks, lastOp.snapshot.Asks)
        /\ ApplySnapshot(ob, lastOp.snapshot) = ob

\* a snapshot with a "0" level and a live level replaced a book that held a
\* level the snapshot does not carry
C2_Witness ==
    /\ lastOp.kind = "snapshot"
    /\ lastOp.hadOther
    /\ \E i \in 1..Len(lastOp.snapshot.Bids) : lastOp.snapshot.Bids[i].Size = "0"
    /\ DOMAIN ob.Asks # {}

(***************************************************************************)
(* Connection claims (checked under SpecConn)                              *)
(***************************************************************************)
\* C3: Close is idempotent and safe in every state: no call of Close fails,
\* and every call that returns leaves the session not connected, marked as
\* intentionally closed, with the heartbeat stopped and the socket released.
C3_CloseIsIdempotent == ~panicked /\ closePost

\* no Close has run to its end, so any disconnect was not asked for
NoCloseYet == ~stopChClosed

\* the session has stopped for good after a reconnect try that failed
StoppedAfterFailedTry ==
    /\ Quiescent
    /\ ~panicked
    /\ NoCloseYet
    /\ ~isConnected
    /\ lastTryFailed

\* C4: the k-th consecutive reconnect try waits k x ReconnectDelay, a try
\* that fails is followed by the next one, and there are at most
\* MaxReconnectAttempts tries: the session stops trying only after
\* MaxReconnectAttempts failed tries.
C4_LinearBackoffUntilCap ==
    /\ tryDelayOk
    /\ triesSinceUp <= MaxReconnectAttempts
    /\ StoppedAfterFailedTry => triesSinceUp = MaxReconnectAttempts

\* C5: when every reconnect try has failed and the session has stopped
\* trying, the reconnect-fail callback has been called with
\* MaxReconnectAttempts, and the session is disconnected.
C5_TerminalFailureSurfaced ==
    StoppedAfterFailedTry =>
        /\ reconnectFail = MaxReconnectAttempts
        /\ conn = 0 \/ sock[conn] # "open"

\* C6: once the caller's Close has returned, and until the caller calls
\* Connect, the session is not connected.
C6_CloseSuppressesReconnect == closeReturned => ~isConnected

(***************************************************************************)
(* Execute claims (checked under SpecExec)                                 *)
(***************************************************************************)
\* the attempt has got past the join of the two submission goroutines
PastJoin == epc \in {"pollA", "pollB", "evaluate", "cancelA", "cancelB"}

\* C7: the attempt proceeds only when both legs' submissions have ended, and
\* no order accepted by the exchange stays live from an attempt that was
\* abandoned because the other leg's submission failed.
C7_NoPartialSubmission ==
    /\ PastJoin => \A l \in Legs : legState[l] \in {"err", "noid", "ok"}
    /\ \A o \in orders : o.attempt \in partial => o.cancelSent

\* the outcomes that say nothing about an order left on the exchange
GenericOutcome(r) ==
    \/ r.Success
    \/ r.Error \in {ErrNone, ErrSetup, ErrNoMarket, ErrBalance,
                     ErrMaxRetries(MaxRetries)}

\* C8: when an attempt ended with exactly one leg's order placed and the
\* other leg failed, the Result that Execute returns reports it: it is not
\* one of the generic outcomes.
C8_PartialIsReported ==
    (epc = "done" /\ partial # {}) => ~GenericOutcome(result)

\* the loop body is being executed
InAttempt ==
    epc \in {"refresh", "price", "submit", "pollA", "pollB", "evaluate",
             "cancelA", "cancelB"}

AttemptsBounded ==
    /\ InAttempt => (1 <= attempt /\ attempt <= MaxRetries)
    /\ \A l \in Legs : submits[l] <= 1
    /\ \A o \in orders : o.attempt <= MaxRetries

RetryLimitOrBalance ==
    /\ AttemptsBounded
    /\ (epc = "done" /\ attempt >= 1 /\ ~result.Success) =>
          /\ result.Error \in {ErrMaxRetries(MaxRetries), ErrBalance}
          /\ result.Error = ErrMaxRetries(MaxRetries) <=> attempt = MaxRetries + 1
          /\ result.Error = ErrBalance <=> tradeAmount < TickSize

FillSeen ==
    /\ epc = "evaluate"
    /\ \A l \in Legs : legState[l] = "ok" /\ status[l] \in SizeMatchedValues
    /\ \E l \in Legs : ParseFloat(status[l]) > 0

C11_SwitchoverPromotesNext ==
    [][(rpc = "end" /\ next # NilRound /\ rpc' = "tick") =>
          /\ current' = next
          /\ next' = NilRound
          /\ upBook' = NewOrderBook(next.UpTokenID, "UP")
          /\ downBook' = NewOrderBook(next.DownTokenID, "DOWN")
          /\ mconn'.connected =>
                /\ TokensOf(next) \subseteq mconn'.subs
                /\ TokensOf(current) \cap mconn'.subs = {}]_vars

\* C12: while Run holds a next Round (between two ticks) and the session is
\* connected, the session is subscribed to the instruments of the current
\* and of the next Round.
C12_BothRoundsSubscribed ==
    (rpc = "tick" /\ next # NilRound /\ mconn.connected) =>
        TokensOf(current) \cup TokensOf(next) \subseteq mconn.subs

ValidRound(r) == r.EndTime > r.StartTime

\* C13: once the first round was fetched Run holds a current Round, and
\* every Round it holds ends after it starts.
C13_RoundsAreValid ==
    /\ rpc \notin {"start", "returned"} => current # NilRound
    /\ current # NilRound => ValidRound(current)
    /\ next # NilRound => ValidRound(next)

(***************************************************************************)
(* Trade-notification claims (checked under SpecTrade)                     *)
(***************************************************************************)
\* C14: since the last ClearProcessedTrades the trade callback has been
\* invoked exactly once for every non-empty trade id that a handled trade
\* frame carried (so: on the first such frame, and for no redelivery), and
\* never for an id no frame carried.
C14_TradeForwardedOnce ==
    \A i \in TradeIds \ {""} :
        tradeCalls[i] = IF i \in tradeSeen THEN 1 ELSE 0

\* two trades were forwarded and a redelivery of one of them was dropped
C14_Witness ==
    /\ tradeDropped >= 1
    /\ tradeCalls["t1"] = 1
    /\ tradeCalls["t2"] = 1

(***************************************************************************)
(* C15: in every attempt the first leg's price is the best bid plus one    *)
(* tick on the tick grid, the second leg's price is 1 minus the first, and *)
(* the two prices sum to exactly 1, for the tick sizes 0.1, 0.01, 0.001    *)
(* and 0.0001 and every best bid on the grid.  A price is on a grid point  *)
(* when its decimal form at the tick's precision is that point.            *)
(***************************************************************************)
C15_LegPricesSumToOne ==
    quoted =>
        /\ FFixed(yesBuyPrice, tickDecimals) = NFromInt(bidTicks + 1)
        /\ FFixed(noBuyPrice, tickDecimals)
              = NFromInt(Pow10(tickDecimals) - (bidTicks + 1))
        /\ FAdd(yesBuyPrice, noBuyPrice) = FOne

\* a read loop, a reconnect timer (or its callback) or a heartbeat goroutine
\* of the session has been started and has not ended
TaskAlive ==
    \/ \E l \in Loops : loopPc[l] \notin {"none", "exit"}
    \/ \E t \in Timers : pc[t] \notin {"idle", "stopped", "done"}
    \/ pingLoops > 0

\* C16: after Close has returned, also on a session that has reconnected,
\* eventually no read loop, heartbeat or reconnect-timer task of the session
\* is left (unless the caller connects again, or the process has died).
C16_TasksEndAfterClose ==
    [](closeReturned => <>(~TaskAlive \/ ~closeReturned \/ panicked))

(***************************************************************************)
(* Order-builder claims (checked under SpecOrder)                          *)
(***************************************************************************)
\* an order has been built whose maker or taker amount is not positive
NonPositiveAmount ==
    /\ userOrder # NoUserOrder
    /\ toUnits(rawSize) = <<>> \/ toUnits(rawAmt) = <<>>

\* C17: building a signed order fails with an InvalidKey error when the
\* private key cannot be parsed, and fails with an InvalidAmount error,
\* returning no signed order, whenever the computed maker or taker amount is
\* not positive (the size or the price is zero after rounding).
C17_InvalidInputsRejected ==
    /\ newClientErr # "" => signedOrder = NilOrder
    /\ NonPositiveAmount => signedOrder = NilOrder /\ buildErr = "InvalidAmount"

\* the size truncated to two decimals, in 1/100
LawSize(size) == (size * 100) \div 1000

\* the price rounded half-up to d decimals, in 1/10^d
LawPrice(price, d) == (2 * price * Pow10(d) + 10000) \div 20000

\* size * price of the rounded values, in 1/1000000.  It has at most 2 + d
\* decimals, which is the amount limit of every tick size (roundingConfigs),
\* so the law's round-up and truncation of a longer product never apply.
LawAmount(size, price, d) ==
    LawSize(size) * LawPrice(price, d) * Pow10(4 - d)

\* C20: for a limit BUY the taker amount is the size truncated to the size
\* decimals, the price is rounded half-up to the price decimals, and the
\* maker amount is taker * price (rounded up at widened precision and then
\* truncated only when it has more decimals than the amount limit); for a
\* SELL the maker amount is the truncated size and the taker amount is
\* maker * price.  Amounts are in units of 1/1000000.
C20_RoundingLaw ==
    signedOrder # NilOrder =>
        LET d == userOrder.TickDecimals
            sizeUnits == NFromInt(LawSize(userOrder.Size) * 10000)
            amtUnits == NFromInt(LawAmount(userOrder.Size, userOrder.Price, d))
        IN  /\ toUnits(rawPrice)
                  = NFromInt(LawPrice(userOrder.Price, d) * Pow10(6 - d))
            /\ signedOrder.MakerAmount
                  = IF userOrder.Side = "BUY" THEN amtUnits ELSE sizeUnits
            /\ signedOrder.TakerAmount
                  = IF userOrder.Side = "BUY" THEN sizeUnits ELSE amtUnits

(***************************************************************************)
(* Best-price claims (checked under SpecBest)                              *)
(***************************************************************************)
\* the levels of a side map whose price is the highest / the lowest
TopLevels(m) ==
    {p \in DOMAIN m : \A q \in DOMAIN m : ParseLevel(q) <= ParseLevel(p)}

BottomLevels(m) ==
    {p \in DOMAIN m : \A q \in DOMAIN m : ParseLevel(q) >= ParseLevel(p)}

\* the result is that of the best level, and every visiting order gives it
BestIs(res, m, levels) ==
    IF DOMAIN m = {} THEN res.price = 0 /\ res.size = 0
    ELSE \A p \in levels :
            /\ res.price = ParseLevel(p)
            /\ res.size = ParseLevel(m[p])

\* C18: for every book, GetBestBid returns the maximum bid price with that
\* level's size and GetBestAsk the minimum ask price with that level's
\* size, whatever the order in which the map is visited; on an empty side
\* the result is (0, 0).
C18_BestDependsOnPricesOnly ==
    /\ bestResult.op = "bid" =>
          /\ BestIs(bestResult, ob.Bids, TopLevels(ob.Bids))
          /\ \A order \in KeyOrders(ob.Bids) :
                ScanBids(ob.Bids, order, 0, 0).size = bestResult.size
    /\ bestResult.op = "ask" =>
          /\ BestIs(bestResult, ob.Asks, BottomLevels(ob.Asks))
          /\ \A order \in KeyOrders(ob.Asks) :
                ScanAsks(ob.Asks, order, AskSentinel, 0).size = bestResult.size

(***************************************************************************)
(* Round-start claims (checked under SpecRound)                            *)
(***************************************************************************)
\* 00:00:00 UTC of the date of t
MidnightOf(t) == t - (t % DaySeconds)

\* the length of the periods the claim names, in seconds
PeriodLength(p) ==
    CASE p = "15m" -> 900
      [] p = "1h" -> 3600
      [] p = "4h" -> 14400

\* C19: for every clock time t and every period P of 15m, 1h and 4h the
\* round start s is t truncated down to a multiple of P counted from
\* 00:00:00 UTC of t's date, so s <= t < s + P; for the daily period s is
\* 00:00:00 UTC of t's date.
C19_RoundStartAligned ==
    roundStart # NoStart =>
        IF period = "daily" THEN roundStart = MidnightOf(clockNow)
        ELSE /\ roundStart >= MidnightOf(clockNow)
             /\ (roundStart - MidnightOf(clockNow)) % PeriodLength(period) = 0
             /\ roundStart <= clockNow
             /\ clockNow < roundStart + PeriodLength(period)

\* at 10:07:33 UTC of the second day the 15-minute round began at 10:00:00
C19_Witness ==
    /\ period = "15m"
    /\ clockNow = DaySeconds + 10 * 3600 + 7 * 60 + 33
    /\ roundStart = DaySeconds + 10 * 3600

TickLoopWrites ==
    \/ current' # current
    \/ next' # next
    \/ SwitchBooks
    \/ FallbackResubscribe

\* C22: the tick loop never writes the Round pointers or the book pointers
\* while messageLoop is inside a handler that reads them: every such write
\* finds messageLoop waiting in its select.
C22_NoWriteDuringHandler ==
    [][TickLoopWrites => hpc = "idle"]_vars

\* C27: a handler applies an event only to a book whose AssetID is the
\* event's asset id.
C27_AppliedToOwnBook ==
    [][HandleApply =>
          /\ hpc = "up" => upBook.AssetID = hAsset
          /\ hpc = "down" => downBook.AssetID = hAsset]_vars

(***************************************************************************)
(* C23: the fallback at round end (checked under SpecSwitch)               *)
(***************************************************************************)
\* C23: a fallback fetch that fails leaves the current Round and the
\* session as they are (the fetch is tried again at the next tick); a
\* fallback that succeeds leaves a connected session subscribed to the new
\* current Round's instruments, empty books bound to them, and exactly one
\* message-handling task.
C23_FallbackRestoresSession ==
    [][/\ (rpc = "end" /\ next = NilRound /\ rpc' = "tick") =>
              /\ current' = current
              /\ mconn' = mconn
       /\ (rpc = "resubscribe" /\ rpc' = "tick" /\ mconn'.connected) =>
              /\ mconn'.subs = TokensOf(current')
              /\ upBook' = NewOrderBook(current'.UpTokenID, "UP")
              /\ downBook' = NewOrderBook(current'.DownTokenID, "DOWN")
              /\ msgLoops' = 1]_vars

(***************************************************************************)
(* Further claims on Strategy.Execute (checked under SpecExec)             *)
(***************************************************************************)
\* C24: when Execute has returned without a fill, a cancel request was
\* issued for every order the exchange accepted during the run.
C24_UnfilledOrdersCancelled ==
    (epc = "done" /\ ~result.Success) => \A o \in orders : o.cancelSent

\* C25: while the two orders of an attempt are being submitted, the book
\* fetched in that attempt had a best bid above 0, at least one ask, and a
\* spread of at least MinSpreadTicks ticks; and a run in which no candidate
\* market qualified has submitted no order.
C25_SubmissionAfterQualifiedBook ==
    /\ epc = "submit" =>
          /\ best.bid > 0
          /\ best.ask # PriceOne
          /\ SpreadTicks(best) >= MinSpreadTicks
    /\ (epc = "done" /\ result.Error = ErrNoMarket) => orders = {}

\* C29: Execute never ends abnormally, and the Result it returns has either
\* Success = true and an empty Error or Success = false and a non-empty
\* Error.
C29_AlwaysReturnsResult ==
    /\ epc # "panic"
    /\ epc = "done" => (result.Success <=> result.Error = ErrNone)

(***************************************************************************)
(* HTTP claims (checked under SpecHttp)                                    *)
(***************************************************************************)
\* the attempt got a 429, a 5xx or a transport error
Transient(o) == o.err = "transport" \/ RetryableStatus(o.code)

\* C26: an attempt that gets a 429, a 5xx or a transport error is followed
\* by another attempt unless it was attempt retry+1, after a delay that is
\* the attempt number times a fixed unit (a response whose body cannot be
\* read is retried at once); every attempt carries the same
\* request body; when the last permitted attempt fails the same way an
\* error is returned; any other 4xx is returned after that attempt with its
\* status.
C26_TransientRetriedOthersSurfaced ==
    /\ \A k \in 1..Len(sentBodies) : sentBodies[k] = sentBodies[1]
    /\ \A k \in 1..Len(sleeps) :
          outcomes[k].err # "read" =>
              /\ Transient(outcomes[k])
              /\ \E unit \in {1, 2} : sleeps[k] = k * unit
    /\ httpPc = "returned" =>
          LET last == outcomes[Len(outcomes)]
          IN  /\ Transient(last) => Len(outcomes) = HTTPRetry + 1 /\ httpErr # NoError
              /\ (last.err = "" /\ last.code >= 400) =>
                    httpErr = [msg |-> "HTTP", code |-> last.code]

(***************************************************************************)
(* C28: the subscription payload of a session (checked under SpecSwitch)   *)
(***************************************************************************)
\* the step makes a new session (subscribe, called by Run at its start and
\* by the fallback)
MakesSession == rpc \in {"subscribe", "resubscribe"} /\ rpc' # rpc

\* C28: a new session's payload is the instrument list it was created for,
\* and no later step of the session (Subscribe, Unsubscribe, a drop, a
\* reconnect, Close) changes it; every connect, the first and every
\* automatic reconnect, leaves the session subscribed to exactly the
\* payload, so instruments added by Subscribe are not subscribed after a
\* reconnect.
C28_ConnectSendsFixedPayload ==
    [][/\ MakesSession =>
              /\ mconn'.payload = TokensOf(current)
              /\ mconn'.connected => mconn'.subs = mconn'.payload
       /\ ~MakesSession => mconn'.payload = mconn.payload
       /\ (~MakesSession /\ mconn.dropped /\ mconn'.connected) =>
              /\ mconn'.subs = mconn.payload
              /\ next # NilRound => TokensOf(next) \cap mconn'.subs = {}]_vars

\* a session that pre-subscribed the next round's instruments was dropped
\* and has reconnected: it is subscribed to its initial instruments only
C28_Witness ==
    /\ rpc = "tick"
    /\ next # NilRound
    /\ drops > 0
    /\ mconn.connected
    /\ mconn.subs = TokensOf(current)
    /\ TokensOf(next) \cap mconn.subs = {}

(***************************************************************************)
(* C30: writers of one socket (checked under SpecWrite)                    *)
(***************************************************************************)
\* C30: at most one task is inside a write to the session's socket at any
\* time.
C30_OneWriterAtATime ==
    Cardinality({w \in Writers : writing[w] # ""}) <= 1

=============================================================================
